---- MODULE Spec2Model ----
(***************************************************************************)
(* Model of the BFT agreement service of substrate/bft (src/substrate/bft/ *)
(* src/lib.rs): the quorum arithmetic, the justification checks, the       *)
(* agreement lifecycle manager (BftService) and the rotating-proposer      *)
(* agreement it drives.                                                    *)
(***************************************************************************)
EXTENDS Integers, Sequences, FiniteSets, TLC

VARIABLES
    n,              \* quorum arithmetic: the number of authorities
    faulty,         \* quorum arithmetic: max_faulty_of(n)
    jAuthorities,   \* justification check: the authority set handed to the check
    jParent,        \* justification check: the parent hash handed to the check
    jVote,          \* the vote the signers sign (kind, round_number, digest)
    jSignParent,    \* the parent hash the signers sign against
    jJust,          \* the UncheckedJustification under construction / checked
    jResult,        \* <<>> before the check, <<result>> after it
    jChecked,       \* "no", "commit" (check_justification), "prepare"
    live,           \* BftService::live_agreements: hash -> instance of the handle, 0 for none
    lock,           \* the thread holding the live_agreements mutex, 0 for none
    insts,          \* the agreement instances created so far (future, cancel flag, channel)
    pc,             \* where each thread is in build_upon
    call,           \* each thread's current or last build_upon call
    ret,            \* what each thread's last build_upon call returned
    active,         \* the threads that call build_upon
    aProposer,      \* agreement: round_proposer, the proposer of each round
    aFaulty,        \* agreement: the Byzantine authorities
    aRound,         \* agreement: each authority's current round
    aProposed,      \* agreement: the digest an honest proposer proposed, per round
    aVotes,         \* agreement: the votes each honest authority has broadcast, per round
    aDecision,      \* agreement: what each authority's agreement resolved to
    node,           \* one node's agreement: its tallies, evidence and outcome
    ctx,            \* context: the BftInstance a Context method is called on
    blake,          \* context: blake2_256, as a function on the hashes of the model
    ctxRound,       \* context: the round number the method is called with
    ctxOut          \* context: <<>> before the call, <<result>> after it

quorumVars == <<n, faulty>>
justVars == <<jAuthorities, jParent, jVote, jSignParent, jJust, jResult, jChecked>>
serviceVars == <<live, lock, insts, pc, call, ret, active>>
agreeVars == <<aProposer, aFaulty, aRound, aProposed, aVotes, aDecision>>
contextVars == <<ctx, blake, ctxRound, ctxOut>>
nodeVars == <<node>>
outsideQuorum == <<justVars, serviceVars, agreeVars, contextVars, nodeVars>>
outsideJust == <<quorumVars, serviceVars, agreeVars, contextVars, nodeVars>>
outsideService == <<quorumVars, justVars, agreeVars, contextVars, nodeVars>>
outsideAgree == <<quorumVars, justVars, serviceVars, contextVars, nodeVars>>
outsideContext == <<quorumVars, justVars, serviceVars, agreeVars, nodeVars>>
outsideNode == <<quorumVars, justVars, serviceVars, agreeVars, contextVars>>
vars == <<quorumVars, justVars, serviceVars, agreeVars, contextVars, nodeVars>>

----------------------------------------------------------------------------
(* Bounds of the model. *)

MaxN == 100         \* authority counts explored by the quorum arithmetic
MaxAuth == 4        \* key pairs of the key ring
MaxRoundLo == 1     \* low 32 bits of a round number range over 0..MaxRoundLo
MaxSigs == 3        \* signatures in an adversarially built justification

----------------------------------------------------------------------------
(* Values. *)

\* Key pairs; a key pair and its public key (AuthorityId) share one name.
Keys == 1..MaxAuth

\* A key pair that belongs to nobody in the key ring.
Outsider == MaxAuth + 1

\* Header hashes used as digests and as parent hashes.
Digests == {"d1", "d2"}
Parents == {"p1", "p2"}

\* A usize round number on a 64-bit target, split in its high and low 32 bits:
\* the value is hi * 2^32 + lo.
USize == [hi : {0, 1}, lo : 0..MaxRoundLo]

\* `r as u32`: the truncating cast of a usize.
as_u32(r) == r.lo

\* `x as usize`: the widening cast of a u32.
as_usize(x) == [hi |-> 0, lo |-> x]

\* Authority sets: the first k keys of the key ring.
AuthoritySets == {1..k : k \in 0..MaxAuth}

VoteKinds == {"Prepare", "Commit"}
Votes == [kind : VoteKinds, round_number : USize, digest : Digests]

----------------------------------------------------------------------------
(* Quorum arithmetic. *)

saturating_sub(a, b) == IF a >= b THEN a - b ELSE 0

max_faulty_of_third(k) == k \div 3

max_faulty_of_half(k) == saturating_sub(k, 1) \div 2

max_faulty_of(k) == saturating_sub(k, 1) \div 3

----------------------------------------------------------------------------
(* Signing and verification. *)

\* Slicable::encode of PrimitiveMessage { parent, action }: the fields in order.
encode_message(parent, kind, round32, digest) == <<parent, kind, round32, digest>>

\* Pair::sign: a signature is bound to the signing key and to the signed bytes.
sign(key, message) == [key |-> key, message |-> message]

verify_strong(sig, message, pubkey) == sig.key = pubkey /\ sig.message = message

\* sign_message on a Vote: the LocalizedSignature of the vote.
sign_vote(vote, key, parent_hash) ==
    [signer |-> key,
     signature |-> sign(key, encode_message(parent_hash, vote.kind, as_u32(vote.round_number), vote.digest))]

\* A signature entry naming `signer` that `signer` did not make.
forged_signature(vote, signer, parent_hash) ==
    [signer |-> signer,
     signature |-> sign(Outsider, encode_message(parent_hash, vote.kind, as_u32(vote.round_number), vote.digest))]

----------------------------------------------------------------------------
(* Justification conversions. *)

\* ed25519::Public(from) and Public::into: the wrapper around the 32 bytes
\* of an AuthorityId.
Public(from) == [public |-> from]
into_authority_id(signer) == signer.public

\* From<UncheckedJustification> for PrimitiveJustification.  The signer of a
\* LocalizedSignature is an ed25519::Public, named here by its key.
into_primitive_reversed(just) ==
    [round_number |-> as_u32(just.round_number),
     hash |-> just.digest,
     signatures |-> [i \in DOMAIN just.signatures |->
                        LET s == just.signatures[Len(just.signatures) + 1 - i]
                        IN  <<into_authority_id(Public(s.signer)), s.signature>>]]

into_primitive(just) ==
    [round_number |-> as_u32(just.round_number),
     hash |-> just.digest,
     signatures |-> [i \in DOMAIN just.signatures |->
                        LET s == just.signatures[i]
                        IN  <<into_authority_id(Public(s.signer)), s.signature>>]]

\* From<PrimitiveJustification> for UncheckedJustification.
from_primitive(just) ==
    [round_number |-> as_usize(just.round_number),
     digest |-> just.hash,
     signatures |-> [i \in DOMAIN just.signatures |->
                        [signer |-> Public(just.signatures[i][1]).public,
                         signature |-> just.signatures[i][2]]]]

----------------------------------------------------------------------------
(* Justification checks. *)

\* UncheckedJustification::check: verdicts[i] is what the caller's closure says
\* of the i-th signature, {} for None and {id} for Some(id).
check(just, threshold, verdicts) ==
    LET voted == UNION {verdicts[i] : i \in DOMAIN verdicts}
    IN  [ok |-> Cardinality(voted) >= threshold, just |-> just]

signature_verdict_no_membership(authorities, message, sig) ==
    IF verify_strong(sig.signature, message, sig.signer) THEN {sig.signer} ELSE {}

signature_verdict(authorities, message, sig) ==
    IF sig.signer \notin authorities THEN {}
    ELSE IF verify_strong(sig.signature, message, sig.signer) THEN {sig.signer}
    ELSE {}

check_justification_signed_message_lax(authorities, message, just) ==
    check(just,
          Cardinality(authorities) - max_faulty_of(Cardinality(authorities)) - 1,
          [i \in DOMAIN just.signatures |->
              signature_verdict(authorities, message, just.signatures[i])])

check_justification_signed_message_all(authorities, message, just) ==
    check(just,
          Cardinality(authorities),
          [i \in DOMAIN just.signatures |->
              signature_verdict(authorities, message, just.signatures[i])])

check_justification_signed_message(authorities, message, just) ==
    check(just,
          Cardinality(authorities) - max_faulty_of(Cardinality(authorities)),
          [i \in DOMAIN just.signatures |->
              signature_verdict(authorities, message, just.signatures[i])])

check_justification_any_digest(authorities, parent, just) ==
    check_justification_signed_message(
        authorities,
        encode_message(parent, "Commit", as_u32(just.round_number), "d1"),
        just)

check_justification_any_parent(authorities, parent, just) ==
    check_justification_signed_message(
        authorities,
        encode_message("p1", "Commit", as_u32(just.round_number), just.digest),
        just)

check_justification_normalised(authorities, parent, just) ==
    check_justification_signed_message(
        authorities,
        encode_message(parent, "Commit", as_u32(just.round_number), just.digest),
        [just EXCEPT !.round_number = as_usize(as_u32(just.round_number))])

check_justification(authorities, parent, just) ==
    check_justification_signed_message(
        authorities,
        encode_message(parent, "Commit", as_u32(just.round_number), just.digest),
        just)

check_prepare_justification_as_commit(authorities, parent, just) ==
    check_justification_signed_message(
        authorities,
        encode_message(parent, "Commit", as_u32(just.round_number), just.digest),
        just)

check_prepare_justification(authorities, parent, just) ==
    check_justification_signed_message(
        authorities,
        encode_message(parent, "Prepare", as_u32(just.round_number), just.digest),
        just)

----------------------------------------------------------------------------
(* The state of the agreement lifecycle manager: BftService, BftFuture and   *)
(* AgreementHandle.                                                         *)

MaxBlock == 3       \* headers the service is notified of
MaxInst == 2        \* agreement futures build_upon constructs

\* Threads calling build_upon; 0 stands for "no thread".
Threads == {1, 2}

\* Headers, named by their hash.  Header h has parent_hash h \div 2, so that
\* 1 has the children 2 and 3, and 0 is the hash of a block before all of them.
Headers == 1..MaxBlock
Hashes == 0..MaxBlock
parent_hash(h) == h \div 2

EmptyTable == [h \in Hashes |-> 0]

\* HashMap::insert and HashMap::remove on live_agreements.
live_insert(table, key, handle) == [table EXCEPT ![key] = handle]

live_remove_and_siblings(table, key) ==
    [h \in Hashes |-> IF h = key \/ (h # 0 /\ h \div 2 = key \div 2) THEN 0 ELSE table[h]]

live_remove_nothing(table, key) == table

live_remove(table, key) == [table EXCEPT ![key] = 0]

\* The BftFuture of a new instance with the cancel flag and the oneshot
\* channel it shares with its AgreementHandle.
\*   future: "queued" (handed to the executor, never polled), "pending"
\*           (polled, not ready), "dropped" (resolved or discarded, and dropped)
\*   task:   "open" (nothing sent), "sent" (the task was sent), "closed" (the
\*           sender was dropped with nothing sent)
\*   misbehavior: the offenders the agreement has recorded and not yet drained
\*   reports:     the number of import_misbehavior calls
\*   reported:    the offenders handed to import_misbehavior
NewInstance(h) ==
    [hash |-> h, future |-> "queued", cancel |-> FALSE, task |-> "open",
     notified |-> FALSE, outcome |-> "none", misbehavior |-> {}, reports |-> 0,
     reported |-> {}, imported |-> 0]

\* The authorities an agreement can record misbehavior of.
Offenders == {"Eve"}

\* Agreement::drain_misbehavior: everything recorded so far, which it forgets.
drain_misbehavior(inst) == inst.misbehavior

\* Drop for BftFuture: the misbehavior is drained into import_misbehavior.
drop_future_silent(inst, outcome) ==
    [inst EXCEPT !.future = "dropped",
                 !.task = IF @ = "open" THEN "closed" ELSE @,
                 !.outcome = outcome]

drop_future(inst, outcome) ==
    [inst EXCEPT !.future = "dropped",
                 !.task = IF @ = "open" THEN "closed" ELSE @,
                 !.outcome = outcome,
                 !.misbehavior = {},
                 !.reports = @ + 1,
                 !.reported = @ \cup drain_misbehavior(inst)]

InnerPolls == {"not_ready", "error", "committed_some", "committed_none"}

\* BftFuture::poll; `inner` is what self.inner.poll() gives and `seen` the
\* misbehavior the agreement records during it.  A future that resolves is
\* dropped by the executor.
poll_ignoring_cancel(inst, inner, seen) ==
    LET sent == [inst EXCEPT !.task = "sent", !.notified = FALSE]
        polled == [sent EXCEPT !.misbehavior = @ \cup seen]
    IN  IF inner = "not_ready" THEN [polled EXCEPT !.future = "pending"]
        ELSE IF inner = "error" THEN drop_future(polled, "error")
        ELSE IF inner = "committed_some"
             THEN drop_future([polled EXCEPT !.imported = @ + 1], "committed")
        ELSE drop_future(polled, "committed")

poll_import_without_candidate(inst, inner, seen) ==
    LET sent == [inst EXCEPT !.task = "sent", !.notified = FALSE]
        polled == [sent EXCEPT !.misbehavior = @ \cup seen]
    IN  IF sent.cancel THEN drop_future(sent, "cancelled")
        ELSE IF inner = "not_ready" THEN [polled EXCEPT !.future = "pending"]
        ELSE IF inner = "error" THEN drop_future(polled, "error")
        ELSE drop_future([polled EXCEPT !.imported = @ + 1], "committed")

poll(inst, inner, seen) ==
    LET sent == [inst EXCEPT !.task = "sent", !.notified = FALSE]
        polled == [sent EXCEPT !.misbehavior = @ \cup seen]
    IN  IF sent.cancel THEN drop_future(sent, "cancelled")
        ELSE IF inner = "not_ready" THEN [polled EXCEPT !.future = "pending"]
        ELSE IF inner = "error" THEN drop_future(polled, "error")
        ELSE IF inner = "committed_some"
             THEN drop_future([polled EXCEPT !.imported = @ + 1], "committed")
        ELSE drop_future(polled, "committed")

\* The import_block call of BftFuture::poll on Committed: none without a
\* candidate, else the candidate with the justification.
import_block(committed) ==
    IF committed.candidate = "none" THEN <<>>
    ELSE <<[block |-> committed.candidate,
            justification |-> committed.justification]>>

\* The locals of one build_upon call, with what the call found at its entry:
\*   init:   what became of self.factory.init ("none": not called)
\*   pre:    live_agreements at the entry
\*   insts0: the number of futures constructed before the entry
NoCall ==
    [header |-> 0, path |-> "none", init |-> "none", new |-> 0, victim |-> 0,
     stage |-> "none", pre |-> EmptyTable, insts0 |-> 0]

\* The key the non-authority path removes from live_agreements.
nonauthority_key_own_hash(header) == header

nonauthority_key(header) == parent_hash(header)

----------------------------------------------------------------------------
(* The state of one agreement instance: the authorities of one parent hash   *)
(* running the rounds of generic::agree.                                     *)

MaxRound == 1       \* the rounds of an agreement are 0..MaxRound

Authorities == {"One", "Two", "Alice", "Eve"}
Rounds == 0..MaxRound

\* generic::agree is given n and max_faulty; a quorum is n - max_faulty votes.
quorum_size == Cardinality(Authorities) - max_faulty_of(Cardinality(Authorities))

NoVotes == [prepare |-> "none", commit |-> "none", advance |-> FALSE]
NoDecision == [round_number |-> 0, digest |-> "none", signatures |-> {}]

Honest == Authorities \ aFaulty

\* The candidates a node can have received as the proposal of round r: the
\* one an honest proposer broadcast, anything from a Byzantine proposer.
proposals(r) == IF aProposer[r] \in aFaulty THEN Digests ELSE aProposed[r]

\* The authorities whose vote of one kind a node can have received: the
\* honest ones that broadcast it and, for any vote, the Byzantine ones.
prepare_voters_any_round(r, d) ==
    {a \in Honest : \E q \in 0..r : aVotes[a][q].prepare = d} \cup aFaulty

prepare_voters(r, d) == {a \in Honest : aVotes[a][r].prepare = d} \cup aFaulty
commit_voters(r, d) == {a \in Honest : aVotes[a][r].commit = d} \cup aFaulty
advance_voters(r) == {a \in Honest : aVotes[a][r].advance} \cup aFaulty

\* The agreement of authority a is still running its rounds.
running_always(a) == TRUE

running(a) == aDecision[a] = NoDecision

AgreeIdle ==
    /\ aProposer = [r \in Rounds |-> "One"]
    /\ aFaulty = {}
    /\ aRound = [a \in Authorities |-> 0]
    /\ aProposed = [r \in Rounds |-> {}]
    /\ aVotes = [a \in Authorities |-> [r \in Rounds |-> NoVotes]]
    /\ aDecision = [a \in Authorities |-> NoDecision]

----------------------------------------------------------------------------
(* One node's view of one round of an agreement: the messages of its input   *)
(* stream, in the order they arrive, and what the agreement makes of them.   *)

AgreementParent == "p1"
Blocks == {"b1", "b2"}

\* The digest of a candidate: the engine hashes a block and nothing else.
block_digest(b) == IF b = "b1" THEN "d1" ELSE "d2"

\* The state of Agreement at its start.
\*   status:      "running", "committed", "error"
\*   proposals:   the candidates received or produced as a full block
\*   votes:       per kind and authority, the digest of the vote counted
\*   misbehavior: the evidence recorded
\*   outcome:     <<>>, or <<Committed>>, or <<error>>
NewAgreement ==
    [round_number |-> 0, status |-> "running", proposals |-> {},
     votes |-> [k \in VoteKinds |-> [a \in Authorities |-> "none"]],
     misbehavior |-> {}, outcome |-> <<>>]

\* The signature of a LocalizedMessage: over (parent_hash, action).
vote_signature(sender, kind, round, digest) ==
    sign(sender, encode_message(AgreementParent, kind, round, digest))

\* Misbehavior: two votes of one kind, one round and one authority, for two
\* digests, with the signatures of both.
double_vote(sender, kind, round, first, second) ==
    [offender |-> sender, kind |-> kind, round_number |-> round,
     first |-> [digest |-> first,
                signature |-> vote_signature(sender, kind, round, first)],
     second |-> [digest |-> second,
                 signature |-> vote_signature(sender, kind, round, second)]]

\* The authorities counted for a digest.
tally(agreement, kind, d) == {a \in Authorities : agreement.votes[kind][a] = d}

\* Committed: the candidate when the node holds a block of the digest, and
\* the justification of the Commit quorum.
committed_candidate_any(agreement, d) ==
    IF agreement.proposals = {} THEN "none"
    ELSE CHOOSE b \in agreement.proposals :
             \A c \in agreement.proposals : block_digest(c) = d => c = b

committed_candidate(agreement, d) ==
    IF \E b \in agreement.proposals : block_digest(b) = d
    THEN CHOOSE b \in agreement.proposals : block_digest(b) = d
    ELSE "none"

committed(agreement, d) ==
    [candidate |-> committed_candidate(agreement, d),
     justification |->
        [round_number |-> agreement.round_number, digest |-> d,
         signatures |->
            {[signer |-> a,
              signature |-> vote_signature(a, "Commit", agreement.round_number, d)]
                 : a \in tally(agreement, "Commit", d)}]]

\* Step 4: a Commit quorum ends the agreement.
conclude(agreement) ==
    IF \E d \in Digests : Cardinality(tally(agreement, "Commit", d)) >= quorum_size
    THEN LET d == CHOOSE c \in Digests :
                      Cardinality(tally(agreement, "Commit", c)) >= quorum_size
         IN  [agreement EXCEPT !.status = "committed",
                               !.outcome = <<committed(agreement, d)>>]
    ELSE agreement

\* Step 3: a vote of an authority with no vote of this kind counted in the
\* round is counted; a second vote for another digest is Misbehavior, and
\* is not counted.
import_vote_last_counts(agreement, kind, sender, d) ==
    LET counted == agreement.votes[kind][sender]
    IN  IF counted = "none"
        THEN conclude([agreement EXCEPT !.votes[kind][sender] = d])
        ELSE IF counted = d THEN agreement
        ELSE conclude([agreement EXCEPT
                 !.votes[kind][sender] = d,
                 !.misbehavior = @ \cup
                     {double_vote(sender, kind, agreement.round_number, counted, d)}])

import_vote(agreement, kind, sender, d) ==
    LET counted == agreement.votes[kind][sender]
    IN  IF counted = "none"
        THEN conclude([agreement EXCEPT !.votes[kind][sender] = d])
        ELSE IF counted = d THEN agreement
        ELSE [agreement EXCEPT
                 !.misbehavior = @ \cup
                     {double_vote(sender, kind, agreement.round_number, counted, d)}]

\* Step 1 and 2: the candidate of a proposal is kept.
import_proposal(agreement, b) == [agreement EXCEPT !.proposals = @ \cup {b}]

\* The input stream ends before a decision: InputStreamConcluded.
input_stream_end_silent(agreement) == agreement

input_stream_end(agreement) ==
    [agreement EXCEPT !.status = "error", !.outcome = <<"InputStreamConcluded">>]

\* What polling the agreement gives the BftFuture.
inner_poll(agreement) ==
    IF agreement.status = "running" THEN "not_ready"
    ELSE IF agreement.status = "error" THEN "error"
    ELSE IF agreement.outcome[1].candidate = "none" THEN "committed_none"
    ELSE "committed_some"

\* The authorities the agreement holds evidence against.
offenders(agreement) == {m.offender : m \in agreement.misbehavior}

----------------------------------------------------------------------------
(* BftInstance as the Context of an agreement: the round timeout and the     *)
(* round proposer.                                                           *)

MaxTimeoutLo == 65  \* low 32 bits of the rounds a timeout is asked for: 0..MaxTimeoutLo
MaxHash == 2        \* the hashes of the model are 0..MaxHash
MaxFold == 2        \* the rounds a proposer is asked for: 0..MaxFold

\* A u64 is the set of the positions of its one bits: 5 is {0, 2}.
U64Bits == 0..63
u64_max_value == U64Bits
u64_one == {0}

\* Shift left with no loss, and the sum and the product of two numbers in
\* full precision.
shl(a, k) == {b + k : b \in a}

RECURSIVE add(_, _)
add(a, b) ==
    IF b = {} THEN a
    ELSE add((a \ b) \cup (b \ a), shl(a \cap b, 1))

RECURSIVE mul(_, _)
mul(a, b) ==
    IF a = {} THEN {}
    ELSE LET k == CHOOSE x \in a : TRUE
         IN  add(shl(b, k), mul(a \ {k}, b))

\* u64::checked_shl: None (<<>>) when the shift is 64 or more, else the
\* shifted value, the bits shifted out of the word being lost.
checked_shl(a, k) == IF k >= 64 THEN <<>> ELSE <<shl(a, k) \cap U64Bits>>

unwrap_or_else(option, default) == IF option = <<>> THEN default ELSE option[1]

\* u64::saturating_mul and, for comparison, u64::wrapping_mul.
wrapping_mul(a, b) == mul(a, b) \cap U64Bits

saturating_mul(a, b) ==
    IF mul(a, b) \subseteq U64Bits THEN mul(a, b) ELSE u64_max_value

\* ::std::cmp::min(63, round) on a usize round, cast to u32.
min_63(round) == IF round.hi > 0 \/ round.lo > 63 THEN 63 ELSE round.lo

\* BftInstance::begin_round_timeout: the seconds the timer sleeps.
begin_round_timeout_wrapping(instance, round) ==
    wrapping_mul(unwrap_or_else(checked_shl(u64_one, min_63(round)), u64_max_value),
                 instance.round_timeout_multiplier)

begin_round_timeout(instance, round) ==
    saturating_mul(unwrap_or_else(checked_shl(u64_one, min_63(round)), u64_max_value),
                   instance.round_timeout_multiplier)

\* The rounds and the multipliers a timeout is computed for.
TimeoutRounds == [hi : {0, 1}, lo : 0..MaxTimeoutLo]
Multipliers ==
    {{}, {0}, {1}, {0, 1}, {2}, {0, 2}, {31}, {32}, {0, 62}, {62}, {63}, {0, 63},
     U64Bits \ {63}, U64Bits}

\* A BftInstance: the fields the Context methods read.
IdleInstance ==
    [key |-> 1, authorities |-> <<1>>, parent_hash |-> 0,
     round_timeout_multiplier |-> {2}]

HashSpace == 0..MaxHash

\* The leading four bytes of hash h, as u32::decode reads them.
first_four_bytes(h) == 7 * h + 5

u32_decode(hashed) == first_four_bytes(hashed)

\* (0..count).fold(a, |a, _| blake2_256(&a[..]))
RECURSIVE fold_blake2_256(_, _)
fold_blake2_256(a, count) ==
    IF count = 0 THEN a ELSE fold_blake2_256(blake[a], count - 1)

\* BftInstance::round_proposer, for a round below 2^32.
round_proposer_round_folds(instance, round) ==
    LET hashed == fold_blake2_256(instance.parent_hash, round.lo)
        index == u32_decode(hashed)
    IN  instance.authorities[(index % Len(instance.authorities)) + 1]

round_proposer(instance, round) ==
    LET hashed == fold_blake2_256(instance.parent_hash, round.lo + 1)
        index == u32_decode(hashed)
    IN  instance.authorities[(index % Len(instance.authorities)) + 1]

\* build_upon, from the authorities of the header to generic::agree: what
\* the call constructs for a header, the authorities the client returned and
\* the local key.  `created` is false on the non-authority path.
build_instance_unchecked(header, authorities, key, multiplier) ==
    [created |-> TRUE,
     instance |-> [key |-> key, authorities |-> authorities,
                   parent_hash |-> header,
                   round_timeout_multiplier |-> multiplier],
     n |-> Len(authorities),
     max_faulty |-> max_faulty_of(Len(authorities))]

build_instance(header, authorities, key, multiplier) ==
    LET count == Len(authorities)
        max_faulty == max_faulty_of(count)
        local_id == key
    IN  IF ~(\E i \in DOMAIN authorities : authorities[i] = local_id)
        THEN [created |-> FALSE, instance |-> IdleInstance, n |-> 0, max_faulty |-> 0]
        ELSE [created |-> TRUE,
              instance |-> [key |-> key, authorities |-> authorities,
                            parent_hash |-> header,
                            round_timeout_multiplier |-> multiplier],
              n |-> count,
              max_faulty |-> max_faulty]

\* Ordered authority lists: the first k keys of the ring, in both orders.
AuthorityLists ==
    {[i \in 1..k |-> i] : k \in 1..MaxAuth}
        \cup {[i \in 1..k |-> k + 1 - i] : k \in 1..MaxAuth}

ProposerRounds == [hi : {0}, lo : 0..MaxFold]

----------------------------------------------------------------------------
(* Idle values of the parts a specification does not exercise. *)

ContextIdle ==
    /\ ctx = IdleInstance
    /\ blake = [h \in HashSpace |-> h]
    /\ ctxRound = as_usize(0)
    /\ ctxOut = <<>>

QuorumIdle == n = 0 /\ faulty = 0

JustIdle ==
    /\ jAuthorities = {}
    /\ jParent = "p1"
    /\ jVote = [kind |-> "Commit", round_number |-> as_usize(0), digest |-> "d1"]
    /\ jSignParent = "p1"
    /\ jJust = [round_number |-> as_usize(0), digest |-> "d1", signatures |-> <<>>]
    /\ jResult = <<>>
    /\ jChecked = "no"

NodeIdle == node = NewAgreement

ServiceStart ==
    /\ live = EmptyTable
    /\ lock = 0
    /\ insts = <<>>
    /\ pc = [t \in Threads |-> "idle"]
    /\ call = [t \in Threads |-> NoCall]
    /\ ret = [t \in Threads |-> "none"]

ServiceIdle ==
    /\ ServiceStart
    /\ active = {}

----------------------------------------------------------------------------
(* SpecQuorum: max_faulty_of applied to every authority count up to MaxN. *)

InitQuorum ==
    /\ n = 0
    /\ faulty = max_faulty_of(0)
    /\ JustIdle
    /\ ServiceIdle
    /\ AgreeIdle
    /\ ContextIdle
    /\ NodeIdle

NextAuthorityCount ==
    /\ n < MaxN
    /\ n' = n + 1
    /\ faulty' = max_faulty_of(n + 1)
    /\ UNCHANGED outsideQuorum

NextQuorum == NextAuthorityCount

SpecQuorum == InitQuorum /\ [][NextQuorum]_vars

----------------------------------------------------------------------------
(* The justification checks applied to a built justification.               *)

CheckJustification ==
    /\ jChecked = "no"
    /\ jResult' = <<check_justification(jAuthorities, jParent, jJust)>>
    /\ jChecked' = "commit"
    /\ UNCHANGED <<jAuthorities, jParent, jVote, jSignParent, jJust, outsideJust>>

CheckPrepareJustification ==
    /\ jChecked = "no"
    /\ jResult' = <<check_prepare_justification(jAuthorities, jParent, jJust)>>
    /\ jChecked' = "prepare"
    /\ UNCHANGED <<jAuthorities, jParent, jVote, jSignParent, jJust, outsideJust>>

(* SpecJust: as tests::justification_check_works, over every context.  Any  *)
(* set of key-ring members signs one vote against one parent hash, in key   *)
(* order; the justification claims any round and digest and is checked      *)
(* against any authority set and parent hash.                               *)

InitJust ==
    /\ QuorumIdle
    /\ jAuthorities \in AuthoritySets
    /\ jParent \in Parents
    /\ jVote \in Votes
    /\ jSignParent \in Parents
    /\ \E round \in USize, digest \in Digests :
           jJust = [round_number |-> round, digest |-> digest, signatures |-> <<>>]
    /\ jResult = <<>>
    /\ jChecked = "no"
    /\ ServiceIdle
    /\ AgreeIdle
    /\ ContextIdle
    /\ NodeIdle

\* The next key of the ring, in key order, signs the vote.
SignInOrder ==
    /\ jChecked = "no"
    /\ \E key \in Keys :
        /\ \A i \in DOMAIN jJust.signatures : jJust.signatures[i].signer < key
        /\ jJust' = [jJust EXCEPT !.signatures =
                        Append(@, sign_vote(jVote, key, jSignParent))]
    /\ UNCHANGED <<jAuthorities, jParent, jVote, jSignParent, jResult, jChecked, outsideJust>>

NextJust == SignInOrder \/ CheckJustification \/ CheckPrepareJustification

SpecJust == InitJust /\ [][NextJust]_vars

(* SpecSigs: an adversarially assembled signature list.  The justification  *)
(* claims the round and digest of the signed Commit vote; its entries are   *)
(* honest signatures and forged ones, in any order, with repetitions.       *)

InitSigs ==
    /\ QuorumIdle
    /\ jAuthorities \in AuthoritySets
    /\ jParent = "p1"
    /\ jSignParent = "p1"
    /\ \E round \in USize :
        /\ jVote = [kind |-> "Commit", round_number |-> round, digest |-> "d1"]
        /\ jJust = [round_number |-> round, digest |-> "d1", signatures |-> <<>>]
    /\ jResult = <<>>
    /\ jChecked = "no"
    /\ ServiceIdle
    /\ AgreeIdle
    /\ ContextIdle
    /\ NodeIdle

SignVote ==
    /\ jChecked = "no"
    /\ Len(jJust.signatures) < MaxSigs
    /\ \E key \in Keys :
        jJust' = [jJust EXCEPT !.signatures =
                     Append(@, sign_vote(jVote, key, jSignParent))]
    /\ UNCHANGED <<jAuthorities, jParent, jVote, jSignParent, jResult, jChecked, outsideJust>>

Forge ==
    /\ jChecked = "no"
    /\ Len(jJust.signatures) < MaxSigs
    /\ \E signer \in Keys :
        jJust' = [jJust EXCEPT !.signatures =
                     Append(@, forged_signature(jVote, signer, jSignParent))]
    /\ UNCHANGED <<jAuthorities, jParent, jVote, jSignParent, jResult, jChecked, outsideJust>>

NextSigs == SignVote \/ Forge \/ CheckJustification \/ CheckPrepareJustification

SpecSigs == InitSigs /\ [][NextSigs]_vars

(* SpecConvert: a justification as in SpecSigs, checked against the whole   *)
(* key ring, is converted to the primitive justification and back.          *)

InitConvert ==
    /\ QuorumIdle
    /\ jAuthorities = Keys
    /\ jParent = "p1"
    /\ jSignParent = "p1"
    /\ \E round \in USize :
        /\ jVote = [kind |-> "Commit", round_number |-> round, digest |-> "d1"]
        /\ jJust = [round_number |-> round, digest |-> "d1", signatures |-> <<>>]
    /\ jResult = <<>>
    /\ jChecked = "no"
    /\ ServiceIdle
    /\ AgreeIdle
    /\ ContextIdle
    /\ NodeIdle

ConvertRoundTrip ==
    /\ jChecked = "no"
    /\ jResult' = <<from_primitive(into_primitive(jJust))>>
    /\ jChecked' = "converted"
    /\ UNCHANGED <<jAuthorities, jParent, jVote, jSignParent, jJust, outsideJust>>

NextConvert == SignVote \/ Forge \/ ConvertRoundTrip

SpecConvert == InitConvert /\ [][NextConvert]_vars

----------------------------------------------------------------------------
(* The operations of the agreement lifecycle manager. *)

\* Thread t enters build_upon(header).
EnterCall(t, header, path, init, new) ==
    /\ t \in active
    /\ pc[t] = "idle"
    /\ call' = [call EXCEPT ![t] =
                   [header |-> header, path |-> path, init |-> init, new |-> new,
                    victim |-> 0, stage |-> "none", pre |-> live,
                    insts0 |-> Len(insts)]]
    /\ UNCHANGED active

\* self.client.authorities(..)? fails.
BuildUponAuthoritiesErrAsNoAuthority(t, header) ==
    /\ EnterCall(t, header, "failed", "none", 0)
    /\ live' = live_remove(live, parent_hash(header))
    /\ ret' = [ret EXCEPT ![t] = "err_authorities"]
    /\ UNCHANGED <<lock, insts, pc, outsideService>>

BuildUponAuthoritiesErr(t, header) ==
    /\ EnterCall(t, header, "failed", "none", 0)
    /\ ret' = [ret EXCEPT ![t] = "err_authorities"]
    /\ UNCHANGED <<live, lock, insts, pc, outsideService>>

\* The local key is not among the authorities: the call goes on to the removal.
BuildUponNotAuthority(t, header) ==
    /\ EnterCall(t, header, "nonauth", "none", 0)
    /\ pc' = [pc EXCEPT ![t] = "nonauth"]
    /\ UNCHANGED <<live, lock, insts, ret, outsideService>>

\* self.factory.init(..)? fails.
BuildUponInitErrRemovesParent(t, header) ==
    /\ EnterCall(t, header, "failed", "failed", 0)
    /\ live' = live_remove(live, parent_hash(header))
    /\ ret' = [ret EXCEPT ![t] = "err_init"]
    /\ UNCHANGED <<lock, insts, pc, outsideService>>

BuildUponInitErr(t, header) ==
    /\ EnterCall(t, header, "failed", "failed", 0)
    /\ ret' = [ret EXCEPT ![t] = "err_init"]
    /\ UNCHANGED <<live, lock, insts, pc, outsideService>>

\* The executor refuses the future: it is dropped with the error.
BuildUponExecutorErrKeepsHandle(t, header) ==
    /\ Len(insts) < MaxInst
    /\ EnterCall(t, header, "failed", "ok", Len(insts) + 1)
    /\ insts' = Append(insts, drop_future(NewInstance(header), "rejected"))
    /\ live' = live_insert(live, header, Len(insts) + 1)
    /\ ret' = [ret EXCEPT ![t] = "err_executor"]
    /\ UNCHANGED <<lock, pc, outsideService>>

BuildUponExecutorErrAfterPreempt(t, header) ==
    /\ Len(insts) < MaxInst
    /\ EnterCall(t, header, "failed", "ok", Len(insts) + 1)
    /\ insts' = Append(insts, drop_future(NewInstance(header), "rejected"))
    /\ live' = live_remove(live, parent_hash(header))
    /\ ret' = [ret EXCEPT ![t] = "err_executor"]
    /\ UNCHANGED <<lock, pc, outsideService>>

BuildUponExecutorErr(t, header) ==
    /\ Len(insts) < MaxInst
    /\ EnterCall(t, header, "failed", "ok", Len(insts) + 1)
    /\ insts' = Append(insts, drop_future(NewInstance(header), "rejected"))
    /\ ret' = [ret EXCEPT ![t] = "err_executor"]
    /\ UNCHANGED <<live, lock, pc, outsideService>>

\* The executor accepts the future: the call goes on to the table update.
BuildUponSpawn(t, header) ==
    /\ Len(insts) < MaxInst
    /\ EnterCall(t, header, "authority", "ok", Len(insts) + 1)
    /\ insts' = Append(insts, NewInstance(header))
    /\ pc' = [pc EXCEPT ![t] = "locking"]
    /\ UNCHANGED <<live, lock, ret, outsideService>>

\* `_preempted_consensus = live.remove(&header.parent_hash)` and the end of the
\* locked block; the removed handle, if any, is dropped before the return.
RemoveParent(t, table) ==
    LET parent == parent_hash(call[t].header)
        preempted == table[parent]
    IN  /\ live' = live_remove(table, parent)
        /\ lock' = 0
        /\ IF preempted # 0
           THEN /\ pc' = [pc EXCEPT ![t] = "drop_preempted"]
                /\ call' = [call EXCEPT ![t].victim = preempted, ![t].stage = "wait"]
                /\ UNCHANGED ret
           ELSE /\ pc' = [pc EXCEPT ![t] = "idle"]
                /\ call' = [call EXCEPT ![t].victim = 0, ![t].stage = "none"]
                /\ ret' = [ret EXCEPT ![t] = "ok"]

BuildUponInsertForgetsReplaced(t) ==
    /\ pc[t] = "locking"
    /\ lock = 0
    /\ RemoveParent(t, live_insert(live, call[t].header, call[t].new))
    /\ UNCHANGED <<insts, active, outsideService>>

\* The locked block of the authority path.  A handle already stored under the
\* header's hash is replaced and dropped while the mutex is held.
BuildUponInsert(t) ==
    /\ pc[t] = "locking"
    /\ lock = 0
    /\ LET hash == call[t].header
           replaced == live[hash]
           inserted == live_insert(live, hash, call[t].new)
       IN  IF replaced # 0
           THEN /\ live' = inserted
                /\ lock' = t
                /\ pc' = [pc EXCEPT ![t] = "drop_replaced"]
                /\ call' = [call EXCEPT ![t].victim = replaced, ![t].stage = "wait"]
                /\ UNCHANGED ret
           ELSE RemoveParent(t, inserted)
    /\ UNCHANGED <<insts, active, outsideService>>

\* The non-authority path: `self.live_agreements.lock().remove(&header.parent_hash);`
\* the removed handle is dropped before the guard is.
NonAuthorityRemove(t) ==
    /\ pc[t] = "nonauth"
    /\ lock = 0
    /\ LET parent == nonauthority_key(call[t].header)
           removed == live[parent]
       IN  /\ live' = live_remove(live, parent)
           /\ IF removed # 0
              THEN /\ lock' = t
                   /\ pc' = [pc EXCEPT ![t] = "drop_removed"]
                   /\ call' = [call EXCEPT ![t].victim = removed, ![t].stage = "wait"]
                   /\ UNCHANGED ret
              ELSE /\ lock' = 0
                   /\ pc' = [pc EXCEPT ![t] = "idle"]
                   /\ ret' = [ret EXCEPT ![t] = "ok"]
                   /\ UNCHANGED call
    /\ UNCHANGED <<insts, active, outsideService>>

DropPcs == {"drop_replaced", "drop_preempted", "drop_removed"}

\* What follows the drop of a handle in build_upon.
FinishDrop(t) ==
    IF pc[t] = "drop_replaced"
    THEN RemoveParent(t, live)
    ELSE /\ live' = live
         /\ lock' = 0
         /\ pc' = [pc EXCEPT ![t] = "idle"]
         /\ call' = [call EXCEPT ![t].victim = 0, ![t].stage = "none"]
         /\ ret' = [ret EXCEPT ![t] = "ok"]

\* Drop for AgreementHandle, first half: task.wait() returns once the future
\* has sent its task or has been dropped; on Ok the cancel flag is stored.
DropWaitStoresOnErr(t) ==
    /\ pc[t] \in DropPcs
    /\ call[t].stage = "wait"
    /\ LET victim == call[t].victim
       IN  /\ insts[victim].task # "open"
           /\ IF insts[victim].task = "sent"
              THEN /\ insts' = [insts EXCEPT ![victim].cancel = TRUE]
                   /\ call' = [call EXCEPT ![t].stage = "notify"]
                   /\ UNCHANGED <<live, lock, pc, ret>>
              ELSE /\ FinishDrop(t)
                   /\ insts' = [insts EXCEPT ![victim].cancel = TRUE]
    /\ UNCHANGED <<active, outsideService>>

DropWait(t) ==
    /\ pc[t] \in DropPcs
    /\ call[t].stage = "wait"
    /\ LET victim == call[t].victim
       IN  /\ insts[victim].task # "open"
           /\ IF insts[victim].task = "sent"
              THEN /\ insts' = [insts EXCEPT ![victim].cancel = TRUE]
                   /\ call' = [call EXCEPT ![t].stage = "notify"]
                   /\ UNCHANGED <<live, lock, pc, ret>>
              ELSE /\ FinishDrop(t)
                   /\ UNCHANGED insts
    /\ UNCHANGED <<active, outsideService>>

\* Drop for AgreementHandle, second half: task.notify().
DropNotifyNothing(t) ==
    /\ pc[t] \in DropPcs
    /\ call[t].stage = "notify"
    /\ insts' = insts
    /\ FinishDrop(t)
    /\ UNCHANGED <<active, outsideService>>

DropNotify(t) ==
    /\ pc[t] \in DropPcs
    /\ call[t].stage = "notify"
    /\ insts' = [insts EXCEPT ![call[t].victim].notified = TRUE]
    /\ FinishDrop(t)
    /\ UNCHANGED <<active, outsideService>>

\* The executor polls future i.
PollSeenCleansTable(i, inner, seen) ==
    /\ insts[i].future \in {"queued", "pending"}
    /\ insts' = [insts EXCEPT ![i] = poll(@, inner, seen)]
    /\ live' = IF insts'[i].future = "dropped"
               THEN [h \in Hashes |-> IF live[h] = i THEN 0 ELSE live[h]]
               ELSE live
    /\ UNCHANGED <<lock, pc, call, ret, active, outsideService>>

PollSeen(i, inner, seen) ==
    /\ insts[i].future \in {"queued", "pending"}
    /\ insts' = [insts EXCEPT ![i] = poll(@, inner, seen)]
    /\ UNCHANGED <<live, lock, pc, call, ret, active, outsideService>>

\* The agreement is given stream::empty() as its input: with no message from
\* another authority it records no misbehavior.
Poll(i, inner) == PollSeen(i, inner, {})

\* The executor discards a future it never polled.
Discard(i) ==
    /\ insts[i].future = "queued"
    /\ insts' = [insts EXCEPT ![i] = drop_future(@, "discarded")]
    /\ UNCHANGED <<live, lock, pc, call, ret, active, outsideService>>

\* Spec: one thread notifies the service of headers, as in
\* tests::future_gets_preempted, while the executor runs the futures.
InitService ==
    /\ QuorumIdle
    /\ JustIdle
    /\ ServiceStart
    /\ active = {1}
    /\ AgreeIdle
    /\ ContextIdle
    /\ NodeIdle

NextService ==
    \/ \E t \in Threads, header \in Headers : BuildUponAuthoritiesErr(t, header)
    \/ \E t \in Threads, header \in Headers : BuildUponNotAuthority(t, header)
    \/ \E t \in Threads, header \in Headers : BuildUponInitErr(t, header)
    \/ \E t \in Threads, header \in Headers : BuildUponExecutorErr(t, header)
    \/ \E t \in Threads, header \in Headers : BuildUponSpawn(t, header)
    \/ \E t \in Threads : BuildUponInsert(t)
    \/ \E t \in Threads : NonAuthorityRemove(t)
    \/ \E t \in Threads : DropWait(t)
    \/ \E t \in Threads : DropNotify(t)
    \/ \E i \in DOMAIN insts, inner \in InnerPolls : Poll(i, inner)
    \/ \E i \in DOMAIN insts : Discard(i)

Spec == InitService /\ [][NextService]_vars

(* SpecFuture: the life of the futures of one header.  The service is        *)
(* notified of header 1 again and again, and of its child 2 when the local   *)
(* key is no authority any more; the agreements record any misbehavior.      *)

NextFuture ==
    \/ \E t \in Threads : BuildUponSpawn(t, 1)
    \/ \E t \in Threads : BuildUponExecutorErr(t, 1)
    \/ \E t \in Threads : BuildUponNotAuthority(t, 2)
    \/ \E t \in Threads : BuildUponInsert(t)
    \/ \E t \in Threads : NonAuthorityRemove(t)
    \/ \E t \in Threads : DropWait(t)
    \/ \E t \in Threads : DropNotify(t)
    \/ \E i \in DOMAIN insts, inner \in InnerPolls, seen \in SUBSET Offenders :
           PollSeen(i, inner, seen)
    \/ \E i \in DOMAIN insts : Discard(i)

SpecFuture == InitService /\ [][NextFuture]_vars

(* SpecCancel: SpecFuture under a fair executor and a caller that goes on.   *)
(* The executor polls again a future whose task was notified; a thread in    *)
(* the drop of a handle takes the next step of the drop when it can.  A      *)
(* future nobody notified may stay unpolled for ever.                        *)

RepollNotified(i) ==
    /\ i \in DOMAIN insts
    /\ insts[i].notified
    /\ \E inner \in InnerPolls, seen \in SUBSET Offenders : PollSeen(i, inner, seen)

FairCancel ==
    /\ \A i \in 1..MaxInst : WF_vars(RepollNotified(i))
    /\ \A t \in Threads : WF_vars(DropWait(t) \/ DropNotify(t))

SpecCancel == InitService /\ [][NextFuture]_vars /\ FairCancel

(* SpecTwoThreads: two threads notify the service at the same time, thread 1 *)
(* of header 1 and thread 2 of its child, header 2; the local key is an      *)
(* authority for both.  The executor runs the futures on a thread of its own.*)

InitTwoThreads ==
    /\ QuorumIdle
    /\ JustIdle
    /\ ServiceStart
    /\ active = Threads
    /\ AgreeIdle
    /\ ContextIdle
    /\ NodeIdle

NextTwoThreads ==
    \/ BuildUponSpawn(1, 1)
    \/ BuildUponSpawn(2, 2)
    \/ \E t \in Threads : BuildUponInsert(t)
    \/ \E t \in Threads : DropWait(t)
    \/ \E t \in Threads : DropNotify(t)
    \/ \E i \in DOMAIN insts, inner \in InnerPolls : Poll(i, inner)
    \/ \E i \in DOMAIN insts : Discard(i)

SpecTwoThreads == InitTwoThreads /\ [][NextTwoThreads]_vars

(* SpecOneThread: as tests::future_gets_preempted, the executor is a reactor *)
(* Core that runs on the caller's thread: it polls the futures only when     *)
(* the caller turns it, between two calls of build_upon.                     *)

CoreTurn(i, inner) ==
    /\ \A t \in Threads : pc[t] = "idle"
    /\ Poll(i, inner)

NextOneThread ==
    \/ \E t \in Threads, header \in Headers : BuildUponAuthoritiesErr(t, header)
    \/ \E t \in Threads, header \in Headers : BuildUponNotAuthority(t, header)
    \/ \E t \in Threads, header \in Headers : BuildUponInitErr(t, header)
    \/ \E t \in Threads, header \in Headers : BuildUponExecutorErr(t, header)
    \/ \E t \in Threads, header \in Headers : BuildUponSpawn(t, header)
    \/ \E t \in Threads : BuildUponInsert(t)
    \/ \E t \in Threads : NonAuthorityRemove(t)
    \/ \E t \in Threads : DropWait(t)
    \/ \E t \in Threads : DropNotify(t)
    \/ \E i \in DOMAIN insts, inner \in InnerPolls : CoreTurn(i, inner)

SpecOneThread == InitService /\ [][NextOneThread]_vars

----------------------------------------------------------------------------
(* SpecAgree: the rounds of one agreement instance among four authorities.  *)
(* Eve is Byzantine (max_faulty_of(4) = 1): she may send any proposal and    *)
(* any vote to any node at any time, which includes behaving honestly.  The  *)
(* proposer of a round is an honest authority or Eve.  An honest node acts   *)
(* on the messages it has received; what it can have received is what was    *)
(* broadcast, in any order and with any delay.                               *)

InitAgree ==
    /\ QuorumIdle
    /\ JustIdle
    /\ ServiceIdle
    /\ ContextIdle
    /\ NodeIdle
    /\ aProposer \in [Rounds -> {"One", "Eve"}]
    /\ aFaulty = {"Eve"}
    /\ aRound = [a \in Authorities |-> 0]
    /\ aProposed = [r \in Rounds |-> {}]
    /\ aVotes = [a \in Authorities |-> [r \in Rounds |-> NoVotes]]
    /\ aDecision = [a \in Authorities |-> NoDecision]

\* Step 1: the round's proposer creates a candidate and broadcasts it.
Propose(a, d) ==
    /\ a \in Honest
    /\ running(a)
    /\ aProposer[aRound[a]] = a
    /\ aProposed[aRound[a]] = {}
    /\ aProposed' = [aProposed EXCEPT ![aRound[a]] = {d}]
    /\ UNCHANGED <<aProposer, aFaulty, aRound, aVotes, aDecision, outsideAgree>>

\* Step 2: a node that received the round's proposal and found it valid
\* broadcasts Prepare; it prepares one digest per round.
PrepareAgain(a, d) ==
    /\ a \in Honest
    /\ running(a)
    /\ d \in proposals(aRound[a])
    /\ aVotes' = [aVotes EXCEPT ![a][aRound[a]].prepare = d]
    /\ UNCHANGED <<aProposer, aFaulty, aRound, aProposed, aDecision, outsideAgree>>

Prepare(a, d) ==
    /\ a \in Honest
    /\ running(a)
    /\ d \in proposals(aRound[a])
    /\ aVotes[a][aRound[a]].prepare = "none"
    /\ aVotes' = [aVotes EXCEPT ![a][aRound[a]].prepare = d]
    /\ UNCHANGED <<aProposer, aFaulty, aRound, aProposed, aDecision, outsideAgree>>

\* Step 3: on a Prepare quorum for a digest the node broadcasts Commit; it
\* commits one digest per round.
Commit(a, d) ==
    /\ a \in Honest
    /\ running(a)
    /\ Cardinality(prepare_voters(aRound[a], d)) >= quorum_size
    /\ aVotes[a][aRound[a]].commit = "none"
    /\ aVotes' = [aVotes EXCEPT ![a][aRound[a]].commit = d]
    /\ UNCHANGED <<aProposer, aFaulty, aRound, aProposed, aDecision, outsideAgree>>

\* Step 4: on a Commit quorum for a digest the agreement concludes with the
\* justification built from the quorum's Commit signatures.
ConcludeBackInRoundZero(a, d) ==
    /\ a \in Honest
    /\ running(a)
    /\ Cardinality(commit_voters(aRound[a], d)) >= quorum_size
    /\ aDecision' = [aDecision EXCEPT ![a] =
                        [round_number |-> aRound[a], digest |-> d,
                         signatures |-> commit_voters(aRound[a], d)]]
    /\ aRound' = [aRound EXCEPT ![a] = 0]
    /\ UNCHANGED <<aProposer, aFaulty, aProposed, aVotes, outsideAgree>>

Conclude(a, d) ==
    /\ a \in Honest
    /\ running(a)
    /\ Cardinality(commit_voters(aRound[a], d)) >= quorum_size
    /\ aDecision' = [aDecision EXCEPT ![a] =
                        [round_number |-> aRound[a], digest |-> d,
                         signatures |-> commit_voters(aRound[a], d)]]
    /\ UNCHANGED <<aProposer, aFaulty, aRound, aProposed, aVotes, outsideAgree>>

\* Step 5, first half: the round's timeout elapses with no Commit quorum
\* acted upon; the node broadcasts AdvanceRound.
RoundTimeout(a) ==
    /\ a \in Honest
    /\ running(a)
    /\ aRound[a] < MaxRound
    /\ ~aVotes[a][aRound[a]].advance
    /\ aVotes' = [aVotes EXCEPT ![a][aRound[a]].advance = TRUE]
    /\ UNCHANGED <<aProposer, aFaulty, aRound, aProposed, aDecision, outsideAgree>>

\* Step 5, second half: on an AdvanceRound quorum the node moves to the next
\* round with empty tallies.
AdvanceRound(a) ==
    /\ a \in Honest
    /\ running(a)
    /\ aRound[a] < MaxRound
    /\ Cardinality(advance_voters(aRound[a])) >= quorum_size
    /\ aRound' = [aRound EXCEPT ![a] = @ + 1]
    /\ UNCHANGED <<aProposer, aFaulty, aProposed, aVotes, aDecision, outsideAgree>>

NextAgree ==
    \/ \E a \in Authorities, d \in Digests : Propose(a, d)
    \/ \E a \in Authorities, d \in Digests : Prepare(a, d)
    \/ \E a \in Authorities, d \in Digests : Commit(a, d)
    \/ \E a \in Authorities, d \in Digests : Conclude(a, d)
    \/ \E a \in Authorities : RoundTimeout(a)
    \/ \E a \in Authorities : AdvanceRound(a)

SpecAgree == InitAgree /\ [][NextAgree]_vars

----------------------------------------------------------------------------
(* SpecNode: one node's agreement in one round.  Proposals and votes of the  *)
(* four authorities arrive in any order; an honest authority sends one vote  *)
(* of a kind, Eve sends any; the stream may end at any time.                 *)

InitNode ==
    /\ QuorumIdle
    /\ JustIdle
    /\ ServiceIdle
    /\ ContextIdle
    /\ aProposer = [r \in Rounds |-> "One"]
    /\ aFaulty = {"Eve"}
    /\ aRound = [a \in Authorities |-> 0]
    /\ aProposed = [r \in Rounds |-> {}]
    /\ aVotes = [a \in Authorities |-> [r \in Rounds |-> NoVotes]]
    /\ aDecision = [a \in Authorities |-> NoDecision]
    /\ node = NewAgreement

ImportProposal(b) ==
    /\ node.status = "running"
    /\ node' = import_proposal(node, b)
    /\ UNCHANGED outsideNode

ImportVote(kind, sender, d) ==
    /\ node.status = "running"
    /\ sender \in aFaulty \/ node.votes[kind][sender] \in {"none", d}
    /\ node' = import_vote(node, kind, sender, d)
    /\ UNCHANGED outsideNode

InputStreamEnd ==
    /\ node.status = "running"
    /\ node' = input_stream_end(node)
    /\ UNCHANGED outsideNode

NextNode ==
    \/ \E b \in Blocks : ImportProposal(b)
    \/ \E kind \in VoteKinds, sender \in Authorities, d \in Digests :
           ImportVote(kind, sender, d)
    \/ InputStreamEnd

SpecNode == InitNode /\ [][NextNode]_vars

----------------------------------------------------------------------------
(* SpecLive: the agreement under fair delivery with one faulty authority of  *)
(* four.  Eve is faulty by silence: she takes no step and sends nothing.     *)
(* One, Two and Alice are honest and responsive: a message that was          *)
(* broadcast is delivered to each of them, a step they can take on what they *)
(* received is taken, and a round's timeout elapses when the round lasts.    *)

Responsive == Authorities \ {"Eve"}

InitLive ==
    /\ QuorumIdle
    /\ JustIdle
    /\ ServiceIdle
    /\ ContextIdle
    /\ NodeIdle
    /\ aProposer \in [Rounds -> {"One", "Eve"}]
    /\ aFaulty = {}
    /\ aRound = [a \in Authorities |-> 0]
    /\ aProposed = [r \in Rounds |-> {}]
    /\ aVotes = [a \in Authorities |-> [r \in Rounds |-> NoVotes]]
    /\ aDecision = [a \in Authorities |-> NoDecision]

\* Step 5, first half, in any round: the timeout of the node's round elapses
\* before the node has acted on a Commit quorum; it broadcasts AdvanceRound.
TimeoutElapses(a) ==
    /\ running(a)
    /\ ~aVotes[a][aRound[a]].advance
    /\ aVotes' = [aVotes EXCEPT ![a][aRound[a]].advance = TRUE]
    /\ UNCHANGED <<aProposer, aFaulty, aRound, aProposed, aDecision, outsideAgree>>

NextLive ==
    \/ \E a \in Responsive, d \in Digests : Propose(a, d)
    \/ \E a \in Responsive, d \in Digests : Prepare(a, d)
    \/ \E a \in Responsive, d \in Digests : Commit(a, d)
    \/ \E a \in Responsive, d \in Digests : Conclude(a, d)
    \/ \E a \in Responsive : TimeoutElapses(a)
    \/ \E a \in Responsive : AdvanceRound(a)

FairLive ==
    \A a \in Responsive :
        /\ WF_vars(\E d \in Digests : Propose(a, d))
        /\ WF_vars(\E d \in Digests : Prepare(a, d))
        /\ WF_vars(\E d \in Digests : Commit(a, d))
        /\ WF_vars(\E d \in Digests : Conclude(a, d))
        /\ WF_vars(TimeoutElapses(a))
        /\ WF_vars(AdvanceRound(a))

SpecLive == InitLive /\ [][NextLive]_vars /\ FairLive

----------------------------------------------------------------------------
(* SpecTimeout: begin_round_timeout called on an instance with any of the   *)
(* multipliers, for any round.                                              *)

InitTimeout ==
    /\ QuorumIdle
    /\ JustIdle
    /\ ServiceIdle
    /\ AgreeIdle
    /\ NodeIdle
    /\ \E m \in Multipliers : ctx = [IdleInstance EXCEPT !.round_timeout_multiplier = m]
    /\ blake = [h \in HashSpace |-> h]
    /\ ctxRound \in TimeoutRounds
    /\ ctxOut = <<>>

BeginRoundTimeout ==
    /\ ctxOut = <<>>
    /\ ctxOut' = <<[method |-> "begin_round_timeout",
                    value |-> begin_round_timeout(ctx, ctxRound)]>>
    /\ UNCHANGED <<ctx, blake, ctxRound, outsideContext>>

NextTimeout == BeginRoundTimeout

SpecTimeout == InitTimeout /\ [][NextTimeout]_vars

(* SpecProposer: round_proposer called on the instance of an authority,    *)
(* for any hash function on the hashes of the model.                        *)

InitProposer ==
    /\ QuorumIdle
    /\ JustIdle
    /\ ServiceIdle
    /\ AgreeIdle
    /\ NodeIdle
    /\ \E authorities \in AuthorityLists, parent \in HashSpace :
         \E key \in {authorities[i] : i \in DOMAIN authorities} :
            ctx = [key |-> key, authorities |-> authorities, parent_hash |-> parent,
                   round_timeout_multiplier |-> {2}]
    /\ blake \in [HashSpace -> HashSpace]
    /\ ctxRound \in ProposerRounds
    /\ ctxOut = <<>>

RoundProposer ==
    /\ ctxOut = <<>>
    /\ ctxOut' = <<[method |-> "round_proposer",
                    value |-> round_proposer(ctx, ctxRound)]>>
    /\ UNCHANGED <<ctx, blake, ctxRound, outsideContext>>

NextProposer == RoundProposer

SpecProposer == InitProposer /\ [][NextProposer]_vars

(* SpecInstance: build_upon constructs the BftInstance of a header from any   *)
(* authority list the client returns, the empty one included, and any local  *)
(* key; the agreement then asks the instance for the proposer of a round.    *)

InitInstance ==
    /\ QuorumIdle
    /\ JustIdle
    /\ ServiceIdle
    /\ AgreeIdle
    /\ NodeIdle
    /\ ctx = IdleInstance
    /\ blake \in [HashSpace -> HashSpace]
    /\ ctxRound \in ProposerRounds
    /\ ctxOut = <<>>

BuildInstance(header, authorities, key) ==
    /\ ctxOut = <<>>
    /\ LET built == build_instance(header, authorities, key, {2})
       IN  /\ ctx' = built.instance
           /\ ctxOut' = <<[method |-> "build_upon", header |-> header,
                           local_id |-> key, created |-> built.created,
                           n |-> built.n, max_faulty |-> built.max_faulty]>>
    /\ UNCHANGED <<blake, ctxRound, outsideContext>>

ProposerOfInstance ==
    /\ Len(ctxOut) = 1
    /\ ctxOut[1].method = "build_upon"
    /\ ctxOut[1].created
    /\ ctxOut' = Append(ctxOut, [method |-> "round_proposer",
                                 value |-> round_proposer(ctx, ctxRound)])
    /\ UNCHANGED <<ctx, blake, ctxRound, outsideContext>>

NextInstance ==
    \/ \E header \in HashSpace, authorities \in AuthorityLists \cup {<<>>},
          key \in Keys \cup {Outsider} : BuildInstance(header, authorities, key)
    \/ ProposerOfInstance

SpecInstance == InitInstance /\ [][NextInstance]_vars

----------------------------------------------------------------------------
(* Properties of the quorum arithmetic and of the justification checks.     *)

JustResult == jResult[1]
CommitChecked == jChecked = "commit"
AuthorityCount == Cardinality(jAuthorities)

\* n - (n saturating-minus 1) / 3, written out.
QuorumOf(k) == k - ((IF k = 0 THEN 0 ELSE k - 1) \div 3)

\* The bytes a Commit vote for the claimed round and digest is signed over.
ClaimedCommitMessage ==
    <<jParent, "Commit", jJust.round_number.lo, jJust.digest>>

\* The authorities with at least one entry carrying their own signature of
\* the claimed Commit message.
ValidSigners ==
    {a \in jAuthorities : \E i \in DOMAIN jJust.signatures :
        /\ jJust.signatures[i].signer = a
        /\ jJust.signatures[i].signature = [key |-> a, message |-> ClaimedCommitMessage]}

\* The key-ring members that signed the vote.
Signers == {jJust.signatures[i].signer : i \in DOMAIN jJust.signatures}

\* The signed vote is the Commit vote the justification claims, under the
\* parent hash it is checked against.
VoteMatchesClaim ==
    /\ jVote.kind = "Commit"
    /\ jVote.round_number = jJust.round_number
    /\ jVote.digest = jJust.digest
    /\ jSignParent = jParent

\* C4: a justification (r, D) signed by at least n - max_faulty_of(n)
\* distinct authorities, each over Commit(r, D) against the checked parent
\* hash, passes check_justification, for every authority set of size n >= 1.
C4_QuorumAccepted ==
    (/\ CommitChecked
     /\ AuthorityCount >= 1
     /\ VoteMatchesClaim
     /\ Cardinality(Signers \cap jAuthorities) >= QuorumOf(AuthorityCount))
    => JustResult.ok

C4_Witness ==
    /\ CommitChecked
    /\ AuthorityCount = 4
    /\ VoteMatchesClaim
    /\ Cardinality(Signers \cap jAuthorities) = 3
    /\ JustResult.ok

\* C5: a justification claiming round r whose signatures are all over
\* Commit(r', D), r' # r, is rejected by check_justification, even when the
\* digest, the parent hash and the signers are a valid quorum.
C5_WrongRoundRejected ==
    (/\ CommitChecked
     /\ AuthorityCount >= 1
     /\ jVote.kind = "Commit"
     /\ jVote.round_number # jJust.round_number
     /\ jVote.digest = jJust.digest
     /\ jSignParent = jParent
     /\ Cardinality(Signers \cap jAuthorities) >= QuorumOf(AuthorityCount))
    => ~JustResult.ok

\* C6: when fewer than n - max_faulty_of(n) distinct authorities have a valid
\* signature in the justification, check_justification returns Err, whatever
\* the digest and the round.
C6_BelowQuorumRejected ==
    (CommitChecked /\ Cardinality(ValidSigners) < QuorumOf(AuthorityCount))
    => ~JustResult.ok

C6_Witness ==
    /\ CommitChecked
    /\ AuthorityCount = 4
    /\ VoteMatchesClaim
    /\ Cardinality(ValidSigners) = 2
    /\ ~JustResult.ok

\* C7 as stated: a justification claiming digest D' made only of signatures
\* over Commit(r, D), D # D', is rejected.
C7_WrongDigestRejected ==
    (/\ CommitChecked
     /\ jVote.kind = "Commit"
     /\ jVote.digest # jJust.digest
     /\ Len(jJust.signatures) >= 1)
    => ~JustResult.ok

\* C7 amended: signatures over Commit(r, D) never count toward the quorum of
\* a justification claiming D' # D, and such a justification is rejected
\* whenever the authority set is not empty.
C7_WrongDigestRejectedNonEmpty ==
    (/\ CommitChecked
     /\ jVote.kind = "Commit"
     /\ jVote.digest # jJust.digest)
    => (ValidSigners = {} /\ (AuthorityCount >= 1 => ~JustResult.ok))

C7_Witness ==
    /\ CommitChecked
    /\ AuthorityCount = 4
    /\ jVote.kind = "Commit"
    /\ jVote.round_number = jJust.round_number
    /\ jSignParent = jParent
    /\ jVote.digest # jJust.digest
    /\ Cardinality(Signers \cap jAuthorities) = 3
    /\ ~JustResult.ok

\* C8: check_justification succeeds if and only if the number of distinct
\* authorities with at least one valid signature is at least the quorum size;
\* invalid entries, entries of non-members and repeated entries neither count
\* nor make an otherwise sufficient justification fail.
C8_DistinctValidSigners ==
    CommitChecked =>
        (JustResult.ok <=> Cardinality(ValidSigners) >= QuorumOf(AuthorityCount))

C8_Witness ==
    /\ CommitChecked
    /\ JustResult.ok
    /\ AuthorityCount >= 1
    /\ \E i, j \in DOMAIN jJust.signatures :
        /\ i < j
        /\ jJust.signatures[i] = jJust.signatures[j]
        /\ jJust.signatures[i].signer \in ValidSigners
    /\ \E i \in DOMAIN jJust.signatures :
        /\ jJust.signatures[i].signature.key # jJust.signatures[i].signer
        /\ jJust.signatures[i].signer \notin jAuthorities

\* C9: on failure check_justification hands back the justification it was
\* given: same round_number, same digest, same signatures in the same order,
\* so that checking the returned value against any authority set gives the
\* verdict of checking the original against it.
C9_FailureReturnsInput ==
    (CommitChecked /\ ~JustResult.ok) =>
        /\ JustResult.just.round_number = jJust.round_number
        /\ JustResult.just.digest = jJust.digest
        /\ JustResult.just.signatures = jJust.signatures
        /\ \A authorities \in AuthoritySets :
            check_justification(authorities, jParent, JustResult.just).ok
                = check_justification(authorities, jParent, jJust).ok

C9_Witness ==
    /\ CommitChecked
    /\ ~JustResult.ok
    /\ jJust.round_number.hi = 1
    /\ Len(jJust.signatures) >= 2
    /\ JustResult.just = jJust

\* C10: max_faulty_of(n) = (n saturating-minus 1) / 3, it is below n / 3 + 1,
\* three times it is below n for n >= 1, and it is 0, 0, 1, 3, 32, 33 at
\* n = 0, 3, 4, 11, 99, 100.
C10_QuorumBound ==
    /\ faulty = (IF n = 0 THEN 0 ELSE n - 1) \div 3
    /\ faulty < n \div 3 + 1
    /\ n >= 1 => 3 * faulty < n
    /\ n = 0 => faulty = 0
    /\ n = 3 => faulty = 0
    /\ n = 4 => faulty = 1
    /\ n = 11 => faulty = 3
    /\ n = 99 => faulty = 32
    /\ n = 100 => faulty = 33

C10_Witness == n = 100 /\ faulty = 33

\* C1: when build_upon(Y) takes the authority path and the executor accepts
\* the future, then at the return the table holds the
\* new handle under hash(Y) and no handle under Y.parent_hash.
C1_Preemption ==
    \A t \in Threads :
        (/\ pc[t] = "idle"
         /\ ret[t] = "ok"
         /\ call[t].path = "authority")
        => /\ live[call[t].header] = call[t].new
           /\ live[parent_hash(call[t].header)] = 0

C1_Witness ==
    \E t \in Threads :
        /\ pc[t] = "idle"
        /\ ret[t] = "ok"
        /\ call[t].path = "authority"
        /\ call[t].pre[parent_hash(call[t].header)] # 0
        /\ live[call[t].header] = call[t].new
        /\ live[parent_hash(call[t].header)] = 0
        /\ insts[call[t].pre[parent_hash(call[t].header)]].cancel

QuorumsOf(k, size) == {A \in SUBSET (1..k) : Cardinality(A) = size}

\* C11: for every n >= 1, with f = max_faulty_of(n) and q = n - f, two sets of
\* q distinct authorities out of n share at least f + 1 authorities
\* (2q - n >= f + 1), hence one outside any set of f faulty ones, and q is
\* strictly greater than 2n/3.
C11_QuorumIntersection ==
    n >= 1 =>
        LET f == faulty
            q == n - faulty
        IN  /\ 2 * q - n >= f + 1
            /\ 3 * q > 2 * n
            /\ q <= n
            /\ n <= MaxAuth =>
                \A A, B \in QuorumsOf(n, q) :
                    /\ Cardinality(A \cap B) >= f + 1
                    /\ \A F \in SUBSET (1..n) :
                        Cardinality(F) <= f => (A \cap B) \ F # {}

C11_Witness ==
    /\ n = 4
    /\ faulty = 1
    /\ \E A, B \in QuorumsOf(4, 3) : A # B /\ Cardinality(A \cap B) = 2

\* Thread t has returned from a build_upon call that took the non-authority
\* path.
NonAuthorityReturned(t) ==
    pc[t] = "idle" /\ call[t].path = "nonauth" /\ ret[t] # "none"

\* C12 as stated: a build_upon(header) by a non-authority leaves no handle
\* under header's own hash, starts no instance and returns Ok.
C12_NonAuthorityRemovesOwnHash ==
    \A t \in Threads :
        NonAuthorityReturned(t) =>
            /\ live[call[t].header] = 0
            /\ Len(insts) = call[t].insts0
            /\ call[t].init = "none"
            /\ ret[t] = "ok"

\* C12 amended: a build_upon(header) by a non-authority removes the handle
\* under header.parent_hash and nothing else (a handle under header's own
\* hash stays), initialises no proposer, constructs no future, inserts
\* nothing, and what it returns is Ok.
C12_NonAuthorityRemovesParentHash ==
    \A t \in Threads :
        NonAuthorityReturned(t) =>
            /\ live[parent_hash(call[t].header)] = 0
            /\ \A h \in Hashes :
                h # parent_hash(call[t].header) => live[h] = call[t].pre[h]
            /\ Len(insts) = call[t].insts0
            /\ call[t].init = "none"
            /\ call[t].new = 0
            /\ ret[t] = "ok"

\* A non-authority call returned with handles under both hashes at its entry.
C12_Witness ==
    \E t \in Threads :
        /\ NonAuthorityReturned(t)
        /\ call[t].pre[parent_hash(call[t].header)] # 0
        /\ call[t].pre[call[t].header] # 0
        /\ live[parent_hash(call[t].header)] = 0
        /\ live[call[t].header] = call[t].pre[call[t].header]

\* C13: for every future build_upon constructs, import_misbehavior is called
\* exactly once, when the future is dropped and not before, with all the
\* misbehavior recorded until then, however the future ended: by commit, by
\* error, by cancellation, discarded, or rejected by the executor.
C13_MisbehaviorReportedOnce ==
    /\ [](\A i \in DOMAIN insts :
            /\ insts[i].reports = (IF insts[i].future = "dropped" THEN 1 ELSE 0)
            /\ insts[i].future # "dropped" => insts[i].reported = {}
            /\ insts[i].future = "dropped" => insts[i].misbehavior = {})
    /\ [][\A i \in DOMAIN insts :
            (insts[i].future # "dropped" /\ insts'[i].future = "dropped") =>
                /\ insts'[i].reports = 1
                /\ insts[i].misbehavior \subseteq insts'[i].reported]_vars

\* One future was cancelled after it recorded misbehavior, another was
\* rejected by the executor; each reported once.
C13_Witness ==
    \E i, j \in DOMAIN insts :
        /\ insts[i].outcome = "cancelled"
        /\ insts[i].reported = {"Eve"}
        /\ insts[i].reports = 1
        /\ insts[j].outcome = "rejected"
        /\ insts[j].reports = 1

\* C14: a handle dropped after its future sent its task stores the cancel
\* flag before it notifies the task, and every poll that starts once the
\* flag is set resolves at once: the inner agreement is not polled (it
\* records nothing) and import_block is not called.
C14_AdvisoryCancellation ==
    /\ [](\A i \in DOMAIN insts :
            /\ insts[i].notified => insts[i].cancel
            /\ insts[i].cancel => insts[i].task = "sent"
            /\ (insts[i].cancel /\ insts[i].future # "dropped") =>
                \A inner \in InnerPolls, seen \in SUBSET Offenders :
                    LET polled == poll(insts[i], inner, seen)
                    IN  /\ polled.future = "dropped"
                        /\ polled.outcome = "cancelled"
                        /\ polled.imported = insts[i].imported
                        /\ polled.reported = insts[i].misbehavior)
    /\ [][\A i \in DOMAIN insts :
            /\ (~insts[i].notified /\ insts'[i].notified) => insts[i].cancel
            /\ (insts[i].cancel /\ insts[i].future # "dropped"
                    /\ insts'[i].future = "dropped") =>
                /\ insts'[i].outcome = "cancelled"
                /\ insts'[i].imported = insts[i].imported]_vars

\* A future that was polled, then cancelled and notified, and has not been
\* polled again yet, next to one whose poll found the flag set.
C14_Witness ==
    \E i, j \in DOMAIN insts :
        /\ insts[i].future = "pending"
        /\ insts[i].cancel
        /\ insts[i].notified
        /\ insts[j].outcome = "cancelled"
        /\ insts[j].imported = 0
        /\ ~insts[j].notified

\* C15: a build_upon call that drops the handle of a future that was never
\* polled goes on and returns without the executor polling that future:
\* with the executor on the caller's thread, a call in progress can always
\* take its next step.
C15_PreemptionReturns ==
    \A t \in Threads :
        (/\ pc[t] \in DropPcs
         /\ call[t].stage = "wait"
         /\ insts[call[t].victim].future = "queued")
        => ENABLED NextOneThread

\* Thread t has returned from build_upon with the given result.
Returned(t, result) == pc[t] = "idle" /\ ret[t] = result

\* C16: when the executor refuses the new future, build_upon returns an
\* Executor error and live_agreements is as it was at the entry: nothing
\* under header's hash is inserted, the handle under header.parent_hash stays.
C16_ExecutorRejection ==
    \A t \in Threads :
        Returned(t, "err_executor") =>
            /\ live = call[t].pre
            /\ call[t].init = "ok"
            /\ Len(insts) = call[t].insts0 + 1
            /\ insts[call[t].new].outcome = "rejected"
            /\ \A h \in Hashes : live[h] # call[t].new

C16_Witness ==
    \E t \in Threads :
        /\ Returned(t, "err_executor")
        /\ call[t].pre[parent_hash(call[t].header)] # 0
        /\ live[parent_hash(call[t].header)] = call[t].pre[parent_hash(call[t].header)]
        /\ live[call[t].header] = 0

\* C17: when authorities() fails, build_upon returns that error, initialises
\* no proposer, constructs and hands over no future, and leaves
\* live_agreements as it was at the entry.
C17_AuthoritiesFailure ==
    \A t \in Threads :
        Returned(t, "err_authorities") =>
            /\ live = call[t].pre
            /\ call[t].init = "none"
            /\ call[t].new = 0
            /\ Len(insts) = call[t].insts0

C17_Witness ==
    \E t \in Threads :
        /\ Returned(t, "err_authorities")
        /\ call[t].pre[parent_hash(call[t].header)] # 0
        /\ call[t].pre[call[t].header] # 0
        /\ live = call[t].pre

\* a <= b for two numbers given by their one bits.
BitsLeq(a, b) ==
    \/ a = b
    \/ \E k \in b \ a : \A j \in (a \ b) : j < k

\* min(2^e * m, 2^64 - 1), written out on the bits of m.
TimesPowerOfTwoSaturated(m, e) ==
    IF m = {} THEN {}
    ELSE IF \A b \in m : b + e <= 63 THEN {b + e : b \in m}
    ELSE 0..63

TimeoutDone == ctxOut # <<>> /\ ctxOut[1].method = "begin_round_timeout"

\* C18: the timeout of round r with multiplier m is
\* min(2^min(63, r) * m, 2^64 - 1) seconds; it never wraps, it is the same
\* for every r >= 63 and it does not decrease from r to r + 1.
C18_TimeoutArithmetic ==
    TimeoutDone =>
        LET m == ctx.round_timeout_multiplier
            e == IF ctxRound.hi = 0 /\ ctxRound.lo < 63 THEN ctxRound.lo ELSE 63
            timeout == ctxOut[1].value
        IN  /\ timeout = TimesPowerOfTwoSaturated(m, e)
            /\ timeout \subseteq 0..63
            /\ m # {} => BitsLeq(m, timeout)
            /\ (ctxRound.hi > 0 \/ ctxRound.lo >= 63) =>
                   timeout = begin_round_timeout(ctx, [hi |-> 0, lo |-> 63])
            /\ BitsLeq(timeout,
                       begin_round_timeout(ctx, [ctxRound EXCEPT !.lo = @ + 1]))

\* Round 63 with multiplier 3: 3 * 2^63 does not fit and the timeout is
\* 2^64 - 1.
C18_Witness ==
    /\ TimeoutDone
    /\ ctx.round_timeout_multiplier = {0, 1}
    /\ ctxRound = [hi |-> 0, lo |-> 63]
    /\ ctxOut[1].value = 0..63

ProposerDone == ctxOut # <<>> /\ ctxOut[1].method = "round_proposer"

\* The hash after k applications of blake2_256 to the parent hash.
HashChain(k) ==
    LET chain[i \in 0..k] == IF i = 0 THEN ctx.parent_hash ELSE blake[chain[i - 1]]
    IN  chain[k]

\* C19: round_proposer(r) is a member of the authority list, the one at
\* index (first 4 bytes of the (r+1)-fold hash of parent_hash) modulo the
\* list length, and an instance with the same parent hash and authority list
\* but another key or timeout multiplier returns the same authority.
C19_ProposerSelection ==
    ProposerDone =>
        LET proposer == ctxOut[1].value
            len == Len(ctx.authorities)
            index == first_four_bytes(HashChain(ctxRound.lo + 1)) % len
        IN  /\ proposer \in {ctx.authorities[i] : i \in DOMAIN ctx.authorities}
            /\ proposer = ctx.authorities[index + 1]
            /\ \A key \in Keys \cup {Outsider}, m \in Multipliers :
                round_proposer([ctx EXCEPT !.key = key,
                                           !.round_timeout_multiplier = m],
                               ctxRound) = proposer

\* Round 2 on a list of four where the hashes of rounds 0, 1 and 2 differ
\* and the proposer is not the local key.
C19_Witness ==
    /\ ProposerDone
    /\ Len(ctx.authorities) = 4
    /\ ctxRound.lo = 2
    /\ HashChain(1) # HashChain(2)
    /\ HashChain(2) # HashChain(3)
    /\ HashChain(1) # HashChain(3)
    /\ ctxOut[1].value # ctx.key

PrepareChecked == jChecked = "prepare"

\* The signed vote is the vote of the given kind for the round and digest the
\* justification claims, under the parent hash it is checked against.
VoteOfKindMatchesClaim(kind) ==
    /\ jVote.kind = kind
    /\ jVote.round_number = jJust.round_number
    /\ jVote.digest = jJust.digest
    /\ jSignParent = jParent

QuorumSigned == Cardinality(Signers \cap jAuthorities) >= QuorumOf(AuthorityCount)

\* What C20 says of a checked justification that carries a quorum of votes.
PrepareAndCommitApart ==
    /\ (PrepareChecked /\ VoteOfKindMatchesClaim("Prepare")) => JustResult.ok
    /\ (CommitChecked /\ VoteOfKindMatchesClaim("Prepare")) => ~JustResult.ok
    /\ (CommitChecked /\ VoteOfKindMatchesClaim("Commit")) => JustResult.ok
    /\ (PrepareChecked /\ VoteOfKindMatchesClaim("Commit")) => ~JustResult.ok

\* C20 as stated: a quorum of Prepare(r, D) signatures is accepted by
\* check_prepare_justification and rejected by check_justification, and a
\* quorum of Commit(r, D) signatures the other way round.
C20_PrepareJustification ==
    (jChecked # "no" /\ QuorumSigned /\ Len(jJust.signatures) >= 1)
        => PrepareAndCommitApart

\* C20 amended: the same, for every authority set that is not empty.
C20_PrepareJustificationNonEmpty ==
    (jChecked # "no" /\ QuorumSigned /\ AuthorityCount >= 1)
        => PrepareAndCommitApart

\* Three of four authorities signed Prepare(r, D) and the justification
\* passed check_prepare_justification.
C20_Witness ==
    /\ PrepareChecked
    /\ VoteOfKindMatchesClaim("Prepare")
    /\ AuthorityCount = 4
    /\ Cardinality(Signers \cap jAuthorities) = 3
    /\ JustResult.ok

\* The signatures are over the Commit vote the justification claims, made
\* under another parent hash than the one the justification is checked
\* against.
SignedUnderOtherParent ==
    /\ jVote.kind = "Commit"
    /\ jVote.round_number = jJust.round_number
    /\ jVote.digest = jJust.digest
    /\ jSignParent # jParent

\* C21 as stated: a justification whose signatures are all Commit(r, D)
\* signed under P is rejected by check_justification against P' # P.
C21_NoCrossHeightReplay ==
    (CommitChecked /\ SignedUnderOtherParent /\ Len(jJust.signatures) >= 1)
        => ~JustResult.ok

\* C21 amended: votes signed under P never count in a justification checked
\* against P' # P, and such a justification is rejected whenever the
\* authority set is not empty.
C21_NoCrossHeightReplayNonEmpty ==
    (CommitChecked /\ SignedUnderOtherParent)
        => (ValidSigners = {} /\ (AuthorityCount >= 1 => ~JustResult.ok))

\* All four authorities signed Commit(r, D) under the other parent hash.
C21_Witness ==
    /\ CommitChecked
    /\ SignedUnderOtherParent
    /\ AuthorityCount = 4
    /\ Cardinality(Signers \cap jAuthorities) = 4
    /\ ~JustResult.ok

----------------------------------------------------------------------------
(* Properties of one node's agreement. *)

\* The record of a double vote of the sender, signed by it for both digests.
HoldsBothSignatures(agreement, sender, kind, first, second) ==
    \E m \in agreement.misbehavior :
        /\ m.offender = sender
        /\ m.kind = kind
        /\ m.round_number = agreement.round_number
        /\ m.first.digest = first /\ m.second.digest = second
        /\ verify_strong(m.first.signature,
               encode_message(AgreementParent, kind, agreement.round_number, first),
               sender)
        /\ verify_strong(m.second.signature,
               encode_message(AgreementParent, kind, agreement.round_number, second),
               sender)

\* C22: when an authority with a Prepare or Commit counted for a digest in
\* the round sends a vote of that kind for another digest, the Misbehavior
\* record of that authority with both signatures is held afterwards, the
\* later vote is counted for nothing, and the agreement keeps running.
C22_EquivocationHandling ==
    node.status = "running" =>
        \A kind \in VoteKinds, sender \in Authorities, d \in Digests :
            LET counted == node.votes[kind][sender]
                after == import_vote(node, kind, sender, d)
            IN  counted \notin {"none", d} =>
                    /\ HoldsBothSignatures(after, sender, kind, counted, d)
                    /\ tally(after, kind, d) = tally(node, kind, d)
                    /\ after.votes = node.votes
                    /\ after.status = "running"

\* Eve's second Prepare, which would have completed a quorum, was recorded
\* and not counted.
C22_Witness ==
    /\ node.status = "running"
    /\ HoldsBothSignatures(node, "Eve", "Prepare", "d1", "d2")
    /\ Cardinality(tally(node, "Prepare", "d2")) = quorum_size - 1
    /\ "Eve" \in tally(node, "Prepare", "d1")

----------------------------------------------------------------------------
(* Properties of the rounds of an agreement. *)

\* The honest authorities counted for a vote of round r, by kind.
HonestCounted(r, d) ==
    [prepare |-> prepare_voters(r, d) \cap Honest,
     commit |-> commit_voters(r, d) \cap Honest,
     advance |-> advance_voters(r) \cap Honest]

\* C23: a node leaves round r only on an AdvanceRound quorum of round r and
\* enters exactly round r + 1; it has cast no vote of the new round, the
\* votes counted in the new round are votes of the new round (no vote of
\* round r is counted), and a proposal of a round comes from the round's
\* proposer, round_proposer of that round.
C23_RoundAdvance ==
    [][/\ \A a \in Honest, r \in Rounds :
            (aRound[a] # r /\ aRound'[a] = r) =>
                /\ Cardinality(advance_voters(aRound[a])) >= quorum_size
                /\ r = aRound[a] + 1
                /\ aVotes'[a][r] = NoVotes
                /\ \A d \in Digests, b \in Honest :
                      /\ b \in HonestCounted(r, d)'.prepare
                            => aVotes'[b][r].prepare = d
                      /\ b \in HonestCounted(r, d)'.commit
                            => aVotes'[b][r].commit = d
                      /\ b \in HonestCounted(r, d)'.advance
                            => aVotes'[b][r].advance
       /\ \A r \in Rounds :
            aProposed'[r] # aProposed[r] =>
                aProposer[r] \in Honest /\ aRound[aProposer[r]] = r]_vars

\* Two entered round 1 with no vote cast in it, after One prepared d1 in
\* round 0 and not in round 1.
C23_Witness ==
    /\ aRound["Two"] = 1
    /\ aVotes["Two"][1] = NoVotes
    /\ aVotes["One"][0].prepare = "d1"
    /\ aVotes["One"][1].prepare = "none"
    /\ aDecision["Two"] = NoDecision

\* BftFuture::poll of a future that is not cancelled, over the agreement.
PolledOver(agreement) == poll(NewInstance(1), inner_poll(agreement), offenders(agreement))

\* C24: when the input stream ends on an agreement that has observed no
\* Commit quorum, the agreement resolves with InputStreamConcluded and holds
\* no Committed, then and ever after; the BftFuture polling it resolves with
\* an error and does not call import_block.
C24_InputStreamEnd ==
    /\ node.status = "running" =>
          LET after == input_stream_end(node)
          IN  /\ after.status = "error"
              /\ after.outcome = <<"InputStreamConcluded">>
              /\ PolledOver(after).future = "dropped"
              /\ PolledOver(after).outcome = "error"
              /\ PolledOver(after).imported = 0
    /\ node.status = "error" =>
          /\ node.outcome = <<"InputStreamConcluded">>
          /\ \A d \in Digests : Cardinality(tally(node, "Commit", d)) < quorum_size
          /\ ~ENABLED NextNode

\* The stream ended one Commit short of a quorum.
C24_Witness ==
    /\ node.status = "error"
    /\ node.outcome = <<"InputStreamConcluded">>
    /\ Cardinality(tally(node, "Commit", "d1")) = quorum_size - 1
    /\ PolledOver(node).outcome = "error"

----------------------------------------------------------------------------
(* Properties of the lock of the live-instance table. *)

\* C25: no destructor of an AgreementHandle runs in build_upon while the
\* live_agreements mutex is held: a thread that is dropping a handle, one it
\* removed or one its insert replaced, does not hold the mutex.
C25_LockDiscipline ==
    \A t \in Threads : pc[t] \in DropPcs => lock # t

----------------------------------------------------------------------------
(* Properties of the block import. *)

\* The Committed values an agreement can yield, by candidate and digest.
CommittedValues ==
    [candidate : Blocks \cup {"none"},
     justification : [round_number : Rounds, digest : Digests,
                      signatures : {{}}]]

\* C26: a future calls import_block at most once; a poll calls it exactly
\* when the cancel flag is not set at its start and the inner agreement
\* yields Committed with a candidate, and then with that candidate and the
\* committed justification; a poll that finds Committed without a candidate
\* resolves the future as committed and imports nothing.
C26_ImportOnCommit ==
    /\ [](\A i \in DOMAIN insts :
            /\ insts[i].imported <= 1
            /\ insts[i].imported = 1 =>
                  insts[i].future = "dropped" /\ insts[i].outcome = "committed"
            /\ insts[i].future # "dropped" =>
                  \A inner \in InnerPolls, seen \in SUBSET Offenders :
                      LET polled == poll(insts[i], inner, seen)
                      IN  /\ polled.imported =
                                IF inner = "committed_some" /\ ~insts[i].cancel
                                THEN insts[i].imported + 1
                                ELSE insts[i].imported
                          /\ (inner = "committed_none" /\ ~insts[i].cancel) =>
                                /\ polled.future = "dropped"
                                /\ polled.outcome = "committed")
    /\ [](\A c \in CommittedValues :
            /\ c.candidate = "none" => import_block(c) = <<>>
            /\ c.candidate # "none" =>
                  /\ Len(import_block(c)) = 1
                  /\ import_block(c)[1].block = c.candidate
                  /\ import_block(c)[1].justification = c.justification)
    /\ [][\A i \in DOMAIN insts :
            insts'[i].imported # insts[i].imported =>
                /\ insts[i].imported = 0
                /\ ~insts[i].cancel
                /\ insts[i].future # "dropped"
                /\ insts'[i].future = "dropped"
                /\ insts'[i].outcome = "committed"]_vars

\* One future imported its committed candidate; another resolved as
\* committed without a candidate and imported nothing.
C26_Witness ==
    \E i, j \in DOMAIN insts :
        /\ insts[i].outcome = "committed" /\ insts[i].imported = 1
        /\ insts[j].outcome = "committed" /\ insts[j].imported = 0
        /\ insts[j].future = "dropped"

\* C27: the candidate of Committed is absent exactly when the node holds no
\* proposal of the committed digest; a candidate that is present is a
\* proposal the node holds, its digest is the digest of the justification,
\* and it is what the BftFuture imports.
C27_CommittedCandidate ==
    node.status = "committed" =>
        LET result == node.outcome[1]
            observed == {b \in node.proposals :
                            block_digest(b) = result.justification.digest}
        IN  /\ result.candidate = "none" <=> observed = {}
            /\ result.candidate # "none" =>
                  /\ result.candidate \in observed
                  /\ import_block(result)[1].block = result.candidate
                  /\ PolledOver(node).imported = 1
            /\ result.candidate = "none" =>
                  /\ import_block(result) = <<>>
                  /\ PolledOver(node).imported = 0
                  /\ PolledOver(node).outcome = "committed"

\* The agreement committed d1 on votes alone while the node held the
\* proposal of d2 only.
C27_Witness ==
    /\ node.status = "committed"
    /\ node.outcome[1].justification.digest = "d1"
    /\ node.outcome[1].candidate = "none"
    /\ node.proposals = {"b2"}

\* C28: every honest node starts in round 0, and no step of the agreement,
\* on any message or timeout, takes a node to a round below its round: a
\* round a node has left is not entered again.
C28_RoundsMonotone ==
    /\ \A a \in Honest : aRound[a] = 0
    /\ [][\A a \in Honest : aRound'[a] >= aRound[a]]_vars

\* Alice concluded in round 1 while One is still in round 0.
C28_Witness ==
    /\ aRound["Alice"] = 1
    /\ aDecision["Alice"] # NoDecision
    /\ aDecision["Alice"].round_number = 1
    /\ aRound["One"] = 0

----------------------------------------------------------------------------
(* Properties of the progress of an agreement. *)

\* The node is in the last round of the model with an AdvanceRound quorum:
\* it would move on to a round the model does not follow.
AtHorizon(a) ==
    /\ aRound[a] = MaxRound
    /\ Cardinality(advance_voters(MaxRound)) >= quorum_size

\* The round the node is in has ended for it.
RoundOver(a, r) == ~running(a) \/ aRound[a] > r \/ AtHorizon(a)

----------------------------------------------------------------------------
(* Properties of the live-instance table. *)

\* The instance was constructed by an authority-path call of build_upon on
\* the header and its future was accepted by the executor.
SpawnedFor(i, header) ==
    /\ i \in DOMAIN insts
    /\ insts[i].hash = header
    /\ insts[i].outcome # "rejected"

\* C31: the table holds at most one handle per block hash and no handle
\* under two hashes, and the handle under a hash belongs to an instance that
\* build_upon constructed for the header of that hash on the authority path
\* and that the executor accepted.
C31_OneHandlePerKey ==
    /\ \A h \in Hashes : live[h] # 0 => SpawnedFor(live[h], h)
    /\ \A h, k \in Hashes : (live[h] # 0 /\ live[h] = live[k]) => h = k

\* The handles of two headers are in the table and no call is in progress.
C31_Witness ==
    /\ \E h, k \in Hashes : h # k /\ live[h] # 0 /\ live[k] # 0
    /\ \A t \in Threads : pc[t] = "idle"

----------------------------------------------------------------------------
(* Properties of the end of a future. *)

CancelSet(i) == i \in DOMAIN insts /\ insts[i].cancel
FutureDropped(i) == i \in DOMAIN insts /\ insts[i].future = "dropped"

\* C32: a future whose cancel flag is set (its handle was dropped after the
\* future had been polled) is eventually resolved and dropped, given an
\* executor that polls notified tasks again; and a future that has committed
\* is dropped: none runs on after its cancel flag or its commit.
C32_CancellationTakesEffect ==
    /\ \A i \in 1..MaxInst : CancelSet(i) ~> FutureDropped(i)
    /\ [](\A i \in DOMAIN insts :
            insts[i].outcome = "committed" => insts[i].future = "dropped")

\* A cancelled future has resolved and reported, and the call that dropped
\* its handle has returned.
C32_Witness ==
    /\ \E i \in DOMAIN insts :
          /\ insts[i].cancel
          /\ insts[i].outcome = "cancelled"
          /\ insts[i].reports = 1
    /\ \A t \in Threads : pc[t] = "idle"

----------------------------------------------------------------------------
(* Properties of concurrent notifications. *)

\* The last calls of the two threads, build_upon of header 1 and of its
\* child 2 on the authority path, overlapped: each was entered before the
\* other had inserted its handle; and both have returned.
ConcurrentCallsReturned ==
    /\ \A t \in Threads : Returned(t, "ok") /\ call[t].path = "authority"
    /\ call[1].header = 1 /\ call[2].header = 2
    /\ call[1].pre[2] = 0 /\ call[2].pre[1] = 0

\* C33: when build_upon of a header and build_upon of its child ran at the
\* same time on two threads and both have returned, the table holds a
\* handle for the child and none for the header.
C33_ConcurrentPreemption ==
    ConcurrentCallsReturned => (live[2] # 0 /\ live[1] = 0)

\* C34: when an authority-path call of build_upon on a header has returned
\* Ok, the entry of the header's hash holds the new handle, the entry of its
\* parent hash is empty, and every other entry is as the call found it; two
\* headers with one parent are then both in the table.
C34_TwoKeysTouched ==
    \A t \in Threads :
        (Returned(t, "ok") /\ call[t].path = "authority") =>
            LET header == call[t].header
            IN  /\ live[header] = call[t].new
                /\ live[parent_hash(header)] = 0
                /\ \A h \in Hashes \ {header, parent_hash(header)} :
                      live[h] = call[t].pre[h]

\* build_upon was called on header 2 and then on its sibling 3: both handles
\* are in the table.
C34_Witness ==
    /\ Returned(1, "ok")
    /\ call[1].header = 3 /\ call[1].path = "authority"
    /\ call[1].pre[2] # 0
    /\ live[2] = call[1].pre[2]
    /\ live[3] = call[1].new

\* The future of the instance is still held by the executor and its cancel
\* flag is not set.
RunsOn(i) == insts[i].future # "dropped" /\ ~insts[i].cancel

\* C35: when an authority-path call of build_upon on a header has returned
\* Ok and the table held a handle under the header's hash at its entry, the
\* call has started a second instance and stored its handle under that hash,
\* and the first instance does not run on: its cancel flag is set, with its
\* task received and notified, or its future was dropped.  With no call in
\* progress at most one instance per block hash runs on.
C35_RebuildSameHeader ==
    /\ \A t \in Threads :
          (/\ Returned(t, "ok")
           /\ call[t].path = "authority"
           /\ call[t].pre[call[t].header] # 0) =>
              LET first == call[t].pre[call[t].header]
                  second == call[t].new
              IN  /\ second # first
                  /\ SpawnedFor(second, call[t].header)
                  /\ live[call[t].header] = second
                  /\ ~RunsOn(first)
                  /\ insts[first].cancel =>
                        /\ insts[first].task = "sent"
                        /\ insts[first].notified \/ insts[first].future = "dropped"
    /\ (\A t \in Threads : pc[t] = "idle") =>
          \A i, j \in DOMAIN insts :
              (i # j /\ insts[i].hash = insts[j].hash) => ~(RunsOn(i) /\ RunsOn(j))

\* The second call on header 1 has returned; the first instance is cancelled
\* and notified and has not been polled again yet, the second runs on.
C35_Witness ==
    /\ Returned(1, "ok")
    /\ call[1].header = 1 /\ call[1].path = "authority"
    /\ call[1].pre[1] = 1 /\ call[1].new = 2
    /\ insts[1].cancel /\ insts[1].notified /\ insts[1].future = "pending"
    /\ RunsOn(2)

----------------------------------------------------------------------------
(* Properties of the instance build_upon constructs. *)

InstanceBuilt == ctxOut # <<>> /\ ctxOut[1].method = "build_upon" /\ ctxOut[1].created

\* C36: the instance build_upon constructs has an authority list that holds
\* the local identity, and so is not empty; its parent_hash is the hash of
\* the header; the agreement is started with n the length of the list and
\* max_faulty = max_faulty_of(n); and round_proposer of the instance yields
\* a member of the list (the modulus is not zero).
C36_InstanceWellFormed ==
    InstanceBuilt =>
        LET members == {ctx.authorities[i] : i \in DOMAIN ctx.authorities}
        IN  /\ ctxOut[1].local_id \in members
            /\ ctx.key = ctxOut[1].local_id
            /\ Len(ctx.authorities) >= 1
            /\ ctx.parent_hash = ctxOut[1].header
            /\ ctxOut[1].n = Len(ctx.authorities)
            /\ ctxOut[1].max_faulty = (ctxOut[1].n - 1) \div 3
            /\ Len(ctxOut) = 2 => ctxOut[2].value \in members

\* The instance of a one-authority list was built and asked for a proposer.
C36_Witness ==
    /\ InstanceBuilt
    /\ Len(ctx.authorities) = 1
    /\ Len(ctxOut) = 2
    /\ ctxOut[2].value = ctx.key

----------------------------------------------------------------------------
(* Properties of the cancel flag and the task hand-off. *)

\* Thread t is in the drop of the handle of instance i, waiting for its task.
DropsHandleOf(t, i) ==
    pc[t] \in DropPcs /\ call[t].victim = i /\ call[t].stage = "wait"

\* C37: the cancel flag of an instance is false when the instance is
\* constructed and never goes back to false; it is set only in the drop of
\* the handle of that instance, and only when the task of the future was
\* received; the future sends its task only in its first poll, and a poll
\* that finds the flag set has sent the task before.
C37_CancelHandOff ==
    [][/\ \A i \in DOMAIN insts' :
             i \notin DOMAIN insts =>
                 (~insts'[i].cancel /\ insts'[i].task # "sent")
       /\ \A i \in DOMAIN insts :
             /\ insts[i].cancel => insts'[i].cancel
             /\ (~insts[i].cancel /\ insts'[i].cancel) =>
                    /\ insts[i].task = "sent"
                    /\ \E t \in Threads : DropsHandleOf(t, i)
             /\ (insts[i].task # "sent" /\ insts'[i].task = "sent") =>
                    (insts[i].future = "queued" /\ insts[i].task = "open")
             /\ insts[i].task = "sent" => insts'[i].task = "sent"
             /\ (insts[i].outcome # "cancelled" /\ insts'[i].outcome = "cancelled") =>
                    (insts[i].cancel /\ insts'[i].task = "sent")]_vars

\* The handle of a polled future was dropped: the flag is set and the task
\* notified, and the future has not been polled again yet.
C37_Witness ==
    \E i \in DOMAIN insts :
        /\ insts[i].cancel
        /\ insts[i].task = "sent"
        /\ insts[i].notified
        /\ insts[i].future = "pending"

----------------------------------------------------------------------------
(* Properties of a failing proposer factory. *)

\* C38: a build_upon call in which ProposerFactory::init fails returns that
\* error, has constructed no future (nothing was handed to the executor) and
\* leaves live_agreements as it found it, the handle under the parent hash
\* of the header included.
C38_InitErrorLeavesTable ==
    \A t \in Threads :
        (pc[t] = "idle" /\ call[t].init = "failed") =>
            /\ ret[t] = "err_init"
            /\ Len(insts) = call[t].insts0
            /\ live = call[t].pre
            /\ live[parent_hash(call[t].header)] = call[t].pre[parent_hash(call[t].header)]

\* The factory failed for a header whose parent has a live handle, which is
\* still in the table.
C38_Witness ==
    \E t \in Threads :
        /\ Returned(t, "err_init")
        /\ call[t].pre[parent_hash(call[t].header)] # 0
        /\ live[parent_hash(call[t].header)] # 0

----------------------------------------------------------------------------
(* Properties of the table at the completion of a future. *)

\* The future of instance i has resolved in a poll.
Resolved(i) ==
    /\ insts[i].future = "dropped"
    /\ insts[i].outcome \in {"committed", "error", "cancelled"}

\* C39: a step in which a future resolves (commit, error or cancellation)
\* leaves live_agreements as it is, and the table only changes in a step of
\* a build_upon call; a thread that drops the handle of a resolved future
\* finds the task sent, so that task.wait() returns at once, and no step
\* after the resolution adds an import_block call to the one of the commit.
C39_CompletionKeepsTable ==
    [][/\ \A i \in DOMAIN insts :
             (~Resolved(i) /\ Resolved(i)') => live' = live
       /\ live' # live => \E t \in Threads : pc[t] # "idle"
       /\ \A i \in DOMAIN insts :
             Resolved(i) =>
                 /\ insts[i].task = "sent"
                 /\ insts'[i].imported = insts[i].imported
                 /\ insts[i].imported <= 1]_vars

\* A future has committed and imported its block while its handle is still
\* in the table, and a later call has then dropped that handle and returned.
C39_Witness ==
    \E i \in DOMAIN insts :
        /\ Resolved(i)
        /\ insts[i].outcome = "committed"
        /\ insts[i].imported = 1
        /\ \A h \in Hashes : live[h] # i
        /\ \E t \in Threads : Returned(t, "ok") /\ call[t].new # i
        /\ insts[i].cancel
        /\ insts[i].notified

----------------------------------------------------------------------------
(* Properties of the justification conversions. *)

\* C40: an UncheckedJustification converted to the primitive justification
\* and back has the same digest and the same (signer, signature) entries in
\* the same order; its round_number is the original one below 2^32 and the
\* original one modulo 2^32 above, which is the round that sign_message
\* signed and that check_justification verifies: both justifications get the
\* same verdict.
C40_ConversionRoundTrip ==
    jChecked = "converted" =>
        LET back == jResult[1]
        IN  /\ back.digest = jJust.digest
            /\ Len(back.signatures) = Len(jJust.signatures)
            /\ \A i \in DOMAIN jJust.signatures :
                   /\ back.signatures[i].signer = jJust.signatures[i].signer
                   /\ back.signatures[i].signature = jJust.signatures[i].signature
            /\ jJust.round_number.hi = 0 => back.round_number = jJust.round_number
            /\ back.round_number.hi = 0
            /\ back.round_number.lo = jJust.round_number.lo
            /\ \A i \in DOMAIN jJust.signatures :
                   jJust.signatures[i].signature.message[3] = as_u32(back.round_number)
            /\ check_justification(jAuthorities, jParent, back).ok
                   = check_justification(jAuthorities, jParent, jJust).ok

\* A justification of a round of 2^32 or more, with two different entries
\* and a quorum of signers, was converted and came back with another round.
C40_Witness ==
    /\ jChecked = "converted"
    /\ jJust.round_number.hi = 1
    /\ jResult[1].round_number # jJust.round_number
    /\ Len(jJust.signatures) >= 2
    /\ jJust.signatures[1] # jJust.signatures[2]
    /\ check_justification(jAuthorities, jParent, jJust).ok

====
